---- MODULE Spec2Model ----
(***************************************************************************)
(* State-machine model of the `bytes` crate's immutable buffer `Bytes`     *)
(* (src/src/bytes.rs): the (ptr, len) view, the provenance word `data`,    *)
(* the vtable dispatch (Static / Shared / Promotable even / odd), the      *)
(* `Shared` header with its reference count, and the backing allocation.   *)
(*                                                                         *)
(* Spec      every public operation runs to completion as one action (the  *)
(*           program as a single thread drives it).                        *)
(* SpecRace  the clone and drop protocols split at their atomic accesses,  *)
(*           run by several threads over aliases of one allocation.        *)
(* SpecGet   Spec with get in the place of slice.                          *)
(* SpecMut   one BytesMut (src/src/bytes_mut.rs) written to through its    *)
(*           methods and through BufMut, then frozen, turned into a Vec or *)
(*           dropped; the allocator's blocks are kept in a ledger.         *)
(* SpecMutFull  SpecMut with the unsafe set_len, fmt::Write, and put and   *)
(*           advance on the Vec<u8>.                                       *)
(* SpecBuf   a &[u8] read through Buf (src/src/buf/buf_impl.rs).           *)
(* SpecOrder the memory orderings of the reference count, by vector clocks.*)
(* SpecIter  a BytesIter (src/src/iter/bytes.rs) read through its safe     *)
(*           operations and moved by advance and bump.                     *)
(* SpecPut   the loops of the default BufMut::put and put_slice            *)
(*           (src/src/buf/buf_mut.rs), one round per action; SpecPutFair   *)
(*           adds that a call in progress keeps running.                   *)
(***************************************************************************)
EXTENDS Integers, Sequences, FiniteSets, TLC

\* ------------------------------------------------------------------ bounds
MaxLen == 2
MaxBytes == 3
WordBits == 8
NThreads == 2
MaxMutLen == 3

\* ------------------------------------------------------- program constants
KIND_UNSHARED == 1
KIND_SHARED == 0
KIND_MASK == 1

\* usize::MAX of the (scaled-down) machine word
USIZE_MAX == 2^WordBits - 1
\* isize::MAX as usize
ISIZE_MAX == 2^(WordBits - 1) - 1

\* -------------------------------------------------------------- addresses
\* Bytes::EMPTY.as_ptr(): the address of the empty static slice
EmptyAddr == 1
\* src.as_ptr() of the static slice given to from_static
StaticBase == 32
\* the allocator's answer for the Vec / Box<[u8]>: an even or an odd address
HeapEven == 64
HeapOdd == 65
\* Box::into_raw(Box<Shared>): headers live at even addresses
SharedBase == 128
\* NonNull::<u8>::dangling(): the alignment of u8
DanglingAddr == 1

\* the buffers' contents: one per length, every position a different byte
Content(n) == [i \in 1..n |-> (37 * i) % 256]
Contents == {Content(n) : n \in 0..MaxLen}
BytesIds == 1..MaxBytes
Threads == 1..NThreads
\* one header per promotion attempt, plus none to spare
MaxShared == NThreads
SharedIds == 1..MaxShared

SharedAddr(k) == SharedBase + 2 * (k - 1)
SharedIdx(addr) == ((addr - SharedBase) \div 2) + 1

VARIABLES
    statics,    \* the bytes of the static slice at StaticBase
    heap,       \* the backing allocation adopted from a Vec or a Box<[u8]>
    shareds,    \* the Shared headers, by slot
    handles,    \* the Bytes values, by id
    last,       \* the last public call: its arguments, the state before it, its result
    pc,         \* SpecRace: each thread's position in clone / drop
    loc,        \* SpecRace: each thread's local variables
    uaf,        \* SpecRace: accesses made to memory that was already deallocated
    buf_mut,    \* SpecMut: the BytesMut (or the Vec<u8> it was turned into) and its allocation
    written,    \* SpecMut: the bytes written to buf_mut and not popped, in order
    cursor,     \* SpecBuf: the &[u8] read through Buf, and the slice it was taken from
    got,        \* SpecBuf: the bytes get_u8 has returned, in order
    sync,       \* SpecOrder: what each thread's accesses are ordered after
    blocks,     \* SpecMut: what the allocator has handed to the BytesMut, and its fate
    put_loop,   \* SpecPut: the default BufMut::put / put_slice call in progress
    iter,       \* SpecIter: the BytesIter
    contract    \* whether every unsafe fn called so far was called as its Safety section asks

memVars == <<statics, heap, shareds, handles>>
raceVars == <<pc, loc, uaf>>
mutVars == <<buf_mut, written, blocks>>
bufVars == <<cursor, got, put_loop, iter, contract>>
vars == <<statics, heap, shareds, handles, last, pc, loc, uaf, buf_mut, written,
          cursor, got, sync, blocks, put_loop, iter, contract>>

\* ----------------------------------------------------------------- values
NoBytes == [alive |-> "unborn", ptr |-> 0, len |-> 0, data |-> 0, vtable |-> "NONE"]
Dropped == [alive |-> "dropped", ptr |-> 0, len |-> 0, data |-> 0, vtable |-> "NONE"]
NoShared == [state |-> "none", buf |-> 0, cap |-> 0, ref_cnt |-> 0, frees |-> 0]
NoHeap == [state |-> "none", base |-> 0, size |-> 0, bytes |-> <<>>, frees |-> 0, freed_size |-> 0]
NoBufMut == [kind |-> "none", ptr |-> 0, len |-> 0, cap |-> 0, mem |-> <<>>]
NoCursor == [kind |-> "none", ptr |-> 0, len |-> 0]
NoBlocks == [owned |-> "none", lost |-> 0, frees |-> 0, handed |-> 0]
NoLoop == [op |-> "none", src |-> <<>>, index |-> 0, count |-> 0, start |-> 0]
NoIter == [kind |-> "none", ptr |-> 0, len |-> 0, pos |-> 0, b |-> 0]
NoSync == [clock |-> <<>>, released |-> <<>>, used |-> <<>>, owner |-> <<>>]

\* struct Bytes { ptr, len, data, vtable }
Bytes(ptr, len, data, vtable) ==
    [alive |-> "live", ptr |-> ptr, len |-> len, data |-> data, vtable |-> vtable]

\* Bytes::from_static: null provenance word, STATIC_VTABLE
from_static(ptr, len) == Bytes(ptr, len, 0, "STATIC")

\* Bytes::new() == Bytes::from_static(Bytes::EMPTY)
BytesNew == from_static(EmptyAddr, 0)

\* mutant: the tag bit is not set
SetKind_untagged(p) == p

\* map_ptr(ptr, |p| p | KIND_UNSHARED)
SetKind(p) == IF p % 2 = 0 THEN p + KIND_UNSHARED ELSE p
\* map_ptr(ptr, |p| p & !KIND_MASK)
ClearKind(p) == p - (p % 2)
\* shared as usize & KIND_MASK
KindOf(word) == word % (KIND_MASK + 1)

\* impl From<Box<[u8]>> for Bytes, given the slice's length and address
from_box(len, ptr) ==
    IF len = 0 THEN BytesNew
    ELSE IF KindOf(ptr) = 0
         THEN Bytes(ptr, len, SetKind(ptr), "PROMOTABLE_EVEN")
         ELSE Bytes(ptr, len, ptr, "PROMOTABLE_ODD")

\* the byte stored at an address
Mem(addr) ==
    IF heap.state # "none" /\ addr >= heap.base /\ addr < heap.base + Len(heap.bytes)
    THEN heap.bytes[addr - heap.base + 1]
    ELSE IF addr >= StaticBase /\ addr < StaticBase + Len(statics)
         THEN statics[addr - StaticBase + 1]
         ELSE -1

\* Bytes::as_slice: slice::from_raw_parts(self.ptr, self.len)
as_slice(b) == [i \in 1..b.len |-> Mem(b.ptr + i - 1)]

FreeIds == {i \in BytesIds : handles[i].alive = "unborn"}
NewId == CHOOSE i \in FreeIds : \A j \in FreeIds : i <= j
FreeShared == {k \in SharedIds : shareds[k].state = "none"}
NewShared == CHOOSE k \in FreeShared : \A j \in FreeShared : k <= j
Live == {i \in BytesIds : handles[i].alive = "live"}

\* ------------------------------------------------------------------ clone
\* (*shared).ref_cnt.fetch_add(1, Ordering::Release), wrapping at usize::MAX
fetch_add(sh, shared) ==
    [sh EXCEPT ![SharedIdx(shared)].ref_cnt = (@ + 1) % (USIZE_MAX + 1)]

\* mutant: the clone views the buffer from its start instead of from ptr
shallow_clone_arc_rebased(sh, shared, ptr, len) ==
    [shareds |-> fetch_add(sh, shared),
     ret |-> Bytes(sh[SharedIdx(shared)].buf, len, shared, "SHARED"),
     data |-> shared]

\* shallow_clone_arc: count one more owner, return a SHARED value over the same view.
\* Result: the headers, the new value, the source's provenance word afterwards.
shallow_clone_arc(sh, shared, ptr, len) ==
    [shareds |-> fetch_add(sh, shared),
     ret |-> Bytes(ptr, len, shared, "SHARED"),
     data |-> shared]

\* mutant: the new header counts one owner
BoxShared_one_owner(buf, offset, len) ==
    [state |-> "live", buf |-> buf, cap |-> (offset - buf) + len, ref_cnt |-> 1, frees |-> 0]

\* Box::new(Shared { buf, cap: (offset - buf) + len, ref_cnt: AtomicUsize::new(2) })
BoxShared(buf, offset, len) ==
    [state |-> "live", buf |-> buf, cap |-> (offset - buf) + len, ref_cnt |-> 2, frees |-> 0]

\* shallow_clone_vec with nobody racing: the header goes to slot k, the
\* compare_exchange finds the word it read and installs the header
shallow_clone_vec(sh, k, buf, offset, len) ==
    [shareds |-> [sh EXCEPT ![k] = BoxShared(buf, offset, len)],
     ret |-> Bytes(offset, len, SharedAddr(k), "SHARED"),
     data |-> SharedAddr(k)]

static_clone(sh, b) ==
    [shareds |-> sh, ret |-> from_static(b.ptr, b.len), data |-> b.data]

shared_clone(sh, b) == shallow_clone_arc(sh, b.data, b.ptr, b.len)

promotable_odd_clone(sh, k, b) ==
    IF KindOf(b.data) = KIND_SHARED
    THEN shallow_clone_arc(sh, b.data, b.ptr, b.len)
    ELSE shallow_clone_vec(sh, k, b.data, b.ptr, b.len)

promotable_even_clone(sh, k, b) ==
    IF KindOf(b.data) = KIND_SHARED
    THEN shallow_clone_arc(sh, b.data, b.ptr, b.len)
    ELSE shallow_clone_vec(sh, k, ClearKind(b.data), b.ptr, b.len)

\* impl Clone for Bytes: (self.vtable.clone)(&self.data, self.ptr, self.len)
clone(sh, k, b) ==
    CASE b.vtable = "STATIC" -> static_clone(sh, b)
      [] b.vtable = "SHARED" -> shared_clone(sh, b)
      [] b.vtable = "PROMOTABLE_ODD" -> promotable_odd_clone(sh, k, b)
      [] b.vtable = "PROMOTABLE_EVEN" -> promotable_even_clone(sh, k, b)

\* ------------------------------------------------------------------- drop
\* alloc::dealloc(buf, Layout(size, 1)) of the backing allocation
dealloc(hp, buf, size) ==
    [hp EXCEPT !.state = "freed", !.frees = @ + 1, !.freed_size = size]

\* drop(Box::from_raw(shared)): Shared::drop frees the buffer, then the box goes
drop_box_shared(sh, hp, shared) ==
    LET k == SharedIdx(shared) IN
    [shareds |-> [sh EXCEPT ![k].state = "freed", ![k].frees = @ + 1],
     heap |-> dealloc(hp, sh[k].buf, sh[k].cap)]

\* (*shared).ref_cnt.fetch_sub(1, Ordering::Release), wrapping below zero
fetch_sub(sh, shared) ==
    [sh EXCEPT ![SharedIdx(shared)].ref_cnt = (@ + USIZE_MAX) % (USIZE_MAX + 1)]

\* release_shared: the caller whose fetch_sub returned 1 frees
release_shared(sh, hp, shared) ==
    LET prev == sh[SharedIdx(shared)].ref_cnt
        dec == fetch_sub(sh, shared)
    IN IF prev # 1 THEN [shareds |-> dec, heap |-> hp]
       ELSE drop_box_shared(dec, hp, shared)

free_boxed_slice(sh, hp, buf, offset, len) ==
    [shareds |-> sh, heap |-> dealloc(hp, buf, (offset - buf) + len)]

static_drop(sh, hp, b) == [shareds |-> sh, heap |-> hp]

shared_drop(sh, hp, b) == release_shared(sh, hp, b.data)

promotable_odd_drop(sh, hp, b) ==
    IF KindOf(b.data) = KIND_SHARED
    THEN release_shared(sh, hp, b.data)
    ELSE free_boxed_slice(sh, hp, b.data, b.ptr, b.len)

promotable_even_drop(sh, hp, b) ==
    IF KindOf(b.data) = KIND_SHARED
    THEN release_shared(sh, hp, b.data)
    ELSE free_boxed_slice(sh, hp, ClearKind(b.data), b.ptr, b.len)

\* impl Drop for Bytes: (self.vtable.drop)(&mut self.data, self.ptr, self.len)
drop_bytes(sh, hp, b) ==
    CASE b.vtable = "STATIC" -> static_drop(sh, hp, b)
      [] b.vtable = "SHARED" -> shared_drop(sh, hp, b)
      [] b.vtable = "PROMOTABLE_ODD" -> promotable_odd_drop(sh, hp, b)
      [] b.vtable = "PROMOTABLE_EVEN" -> promotable_even_drop(sh, hp, b)

\* mutant: the header records the vector's len where its capacity is meant
from_vec_cap_is_len(len, cap, ptr, k) ==
    IF len = cap
    THEN [ret |-> from_box(len, ptr), shared |-> NoShared]
    ELSE [ret |-> Bytes(ptr, len, SharedAddr(k), "SHARED"),
          shared |-> [state |-> "live", buf |-> ptr, cap |-> len, ref_cnt |-> 1, frees |-> 0]]

\* mutant: the len == cap shortcut is missing, every vector gets a header
from_vec_always_shared(len, cap, ptr, k) ==
    [ret |-> Bytes(ptr, len, SharedAddr(k), "SHARED"),
     shared |-> [state |-> "live", buf |-> ptr, cap |-> cap, ref_cnt |-> 1, frees |-> 0]]

\* impl From<Vec<u8>> for Bytes, given the vector's len, capacity and address and
\* the slot k the header would go to. Result: the value and the header (if any).
from_vec(len, cap, ptr, k) ==
    IF len = cap
    THEN [ret |-> from_box(len, ptr), shared |-> NoShared]
    ELSE [ret |-> Bytes(ptr, len, SharedAddr(k), "SHARED"),
          shared |-> [state |-> "live", buf |-> ptr, cap |-> cap, ref_cnt |-> 1, frees |-> 0]]

\* mutant: the copy is made with one byte of spare capacity
slice_to_vec_slack(src, ptr) ==
    [len |-> Len(src), cap |-> Len(src) + 1,
     ptr |-> IF Len(src) = 0 THEN DanglingAddr ELSE ptr]

\* src.to_vec(): a vector of exactly src.len() bytes at the address the
\* allocator answers; an empty one allocates nothing and dangles
slice_to_vec(src, ptr) ==
    [len |-> Len(src), cap |-> Len(src),
     ptr |-> IF Len(src) = 0 THEN DanglingAddr ELSE ptr]

\* Bytes::copy_from_slice: src.to_vec().into()
copy_from_slice(src, ptr, k) ==
    LET v == slice_to_vec(src, ptr) IN from_vec(v.len, v.cap, v.ptr, k)

\* ------------------------------------------------------- slice and split
\* range arguments: a bound that is taken as it is ranges up to one past the
\* longest buffer; a bound the code adds 1 to ranges up to the longest buffer,
\* and over usize::MAX
Plain == 0..(MaxLen + 1)
Stepped == (0..MaxLen) \cup {USIZE_MAX}
Unbounded == [k |-> "Unbounded", v |-> 0]
Included(V) == [k : {"Included"}, v : V]
Excluded(V) == [k : {"Excluded"}, v : V]
\* a..b, a.., ..b, ..=b, .. and (Excluded(a), Unbounded): each arm of the two
\* matches, which resolve the two bounds independently of each other
Ranges ==
    [start : Included(Plain), end : Excluded(Plain) \cup {Unbounded}]
    \cup [start : {Unbounded}, end : Excluded(Plain) \cup Included(Stepped) \cup {Unbounded}]
    \cup [start : Excluded(Stepped), end : {Unbounded}]
\* a Vec's spare capacity
Slacks == {0, 1}
NoRange == [start |-> Unbounded, end |-> Unbounded]

\* usize addition as a release build computes it
WrapAdd(a, b) == (a + b) % (USIZE_MAX + 1)

\* let start = match range.start_bound() { ... }
range_start(r) ==
    CASE r.start.k = "Included" -> r.start.v
      [] r.start.k = "Excluded" -> WrapAdd(r.start.v, 1)
      [] r.start.k = "Unbounded" -> 0

\* let end = match range.end_bound() { ... }
range_end(r) ==
    CASE r.end.k = "Included" -> WrapAdd(r.end.v, 1)
      [] r.end.k = "Excluded" -> r.end.v
      [] r.end.k = "Unbounded" -> 0

\* `start + 1` or `end + 1` exceeds usize::MAX: a panic where overflow checks are
\* compiled in, a wrap-around where they are not
range_overflows(r) ==
    \/ r.start.k = "Excluded" /\ r.start.v = USIZE_MAX
    \/ r.end.k = "Included" /\ r.end.v = USIZE_MAX

\* the two assert!s of slice (and the overflow check, where compiled in)
slice_panics(len, r, overflow_checks) ==
    \/ overflow_checks /\ range_overflows(r)
    \/ ~(range_start(r) <= range_end(r))
    \/ ~(range_end(r) <= len)

\* mutant: the empty range is not short-circuited, the slice takes a clone
slice_is_empty_never(start, end) == FALSE

\* if start == end { return Bytes::new(); }
slice_is_empty(start, end) == start = end

\* mutant: the slice's pointer is not advanced to start
slice_view_unmoved(b, start, end) == [b EXCEPT !.len = end - start]

\* slice.len = end - start; slice.ptr = slice.ptr.add(start)
slice_view(b, start, end) == [b EXCEPT !.len = end - start, !.ptr = @ + start]

\* mutant: the bound check rejects at == len
split_in_bounds_strict(at, len) == at < len

\* assert!(at <= self.len) of split_off and split_to
split_in_bounds(at, len) == at <= len

\* mutant: the length shrinks but the pointer stays
inc_start_unmoved(b, inc) == [b EXCEPT !.len = @ - inc]

\* Bytes::inc_start
inc_start(b, inc) == [b EXCEPT !.len = @ - inc, !.ptr = @ + inc]

\* mutant: the length is left as it was
set_len_kept(b, at) == b

\* self.len = at (split_off), ret.len = at (split_to)
set_len(b, at) == [b EXCEPT !.len = at]

\* index arguments of get: up to the longest buffer's length, and usize::MAX
Indexes == (0..MaxLen) \cup {USIZE_MAX}

\* mutant: the bound check lets index == len through
get_in_bounds_inclusive(index, len) == 0 <= index /\ index <= len

\* assert!((0..self.len).contains(&index)) of get
get_in_bounds(index, len) == 0 <= index /\ index < len

\* unsafe { self.ptr.add(index).read() }
get(b, index) == Mem(b.ptr + index)

\* ---------------------------------------------------------------- actions
Call(op, h, ret, panic, r, at, orig) ==
    [op |-> op, self |-> h, ret |-> ret, panic |-> panic, range |-> r, at |-> at,
     checks |-> TRUE, debug |-> TRUE, err |-> FALSE, orig |-> orig, val |-> 0,
     src |-> <<>>,
     pre |-> IF h = 0 THEN NoBytes ELSE handles[h],
     pre_shareds |-> shareds]

NoCall ==
    [op |-> "none", self |-> 0, ret |-> 0, panic |-> FALSE, range |-> NoRange,
     at |-> 0, checks |-> TRUE, debug |-> TRUE, err |-> FALSE, orig |-> <<>>, val |-> 0,
     src |-> <<>>, pre |-> NoBytes,
     pre_shareds |-> [k \in SharedIds |-> NoShared]]

\* the caller holds no unexamined result: it may make its next call
Ready == last.op = "none" /\ put_loop.op = "none"

\* a thread's locals in clone / drop: the call it is in (a, b: its arguments), the
\* value it works on, the id its result will get, the word it loaded, the header
\* it allocated, the word the failed compare_exchange returned, the value it is
\* about to return; and how many calls it has finished
NoLoc ==
    [op |-> "none", a |-> 0, b |-> 0, h |-> 0, id |-> 0, shared |-> 0, mine |-> 0,
     actual |-> 0, ret |-> NoBytes, lost |-> FALSE, calls |-> 0]

NoneYet == \A i \in BytesIds : handles[i].alive = "unborn"

Init ==
    /\ statics = <<>>
    /\ heap = NoHeap
    /\ shareds = [k \in SharedIds |-> NoShared]
    /\ handles = [i \in BytesIds |-> NoBytes]
    /\ last = NoCall
    /\ pc = [t \in Threads |-> "idle"]
    /\ loc = [t \in Threads |-> NoLoc]
    /\ uaf = FALSE
    /\ buf_mut = NoBufMut
    /\ written = <<>>
    /\ cursor = NoCursor
    /\ got = <<>>
    /\ blocks = NoBlocks
    /\ put_loop = NoLoop
    /\ iter = NoIter
    /\ contract = TRUE
    /\ sync = NoSync

\* Bytes::from_static(src)
FromStatic(src) ==
    /\ Ready /\ NoneYet
    /\ statics' = src
    /\ handles' = [handles EXCEPT ![1] = from_static(StaticBase, Len(src))]
    /\ last' = Call("from_static", 0, 1, FALSE, NoRange, 0, src)
    /\ UNCHANGED <<heap, shareds>>
    /\ UNCHANGED <<raceVars, mutVars, bufVars, sync>>

\* Bytes::from(Vec<u8>) of a vector holding src in an allocation of cap bytes at ptr
FromVec(src, cap, ptr) ==
    /\ Ready /\ NoneYet
    /\ cap >= Len(src)
    /\ LET v == from_vec(Len(src), cap, ptr, 1) IN
        /\ handles' = [handles EXCEPT ![1] = v.ret]
        /\ shareds' = [shareds EXCEPT ![1] = v.shared]
        /\ heap' = IF cap = 0 THEN NoHeap
                   ELSE [NoHeap EXCEPT !.state = "live", !.base = ptr, !.size = cap, !.bytes = src]
    /\ last' = Call("from_vec", 0, 1, FALSE, NoRange, cap, src)
    /\ UNCHANGED statics
    /\ UNCHANGED <<raceVars, mutVars, bufVars, sync>>

\* Bytes::from(Box<[u8]>) of a boxed slice holding src at ptr
FromBox(src, ptr) ==
    /\ Ready /\ NoneYet
    /\ handles' = [handles EXCEPT ![1] = from_box(Len(src), ptr)]
    /\ heap' = IF Len(src) = 0 THEN NoHeap
               ELSE [NoHeap EXCEPT !.state = "live", !.base = ptr, !.size = Len(src), !.bytes = src]
    /\ last' = Call("from_box", 0, 1, FALSE, NoRange, 0, src)
    /\ UNCHANGED <<statics, shareds>>
    /\ UNCHANGED <<raceVars, mutVars, bufVars, sync>>

\* Bytes::copy_from_slice(src), the allocator answering ptr
CopyFromSlice(src, ptr) ==
    /\ Ready /\ NoneYet
    /\ LET v == slice_to_vec(src, ptr)
           c == copy_from_slice(src, ptr, 1)
       IN /\ handles' = [handles EXCEPT ![1] = c.ret]
          /\ shareds' = [shareds EXCEPT ![1] = c.shared]
          /\ heap' = IF v.cap = 0 THEN NoHeap
                     ELSE [NoHeap EXCEPT !.state = "live", !.base = v.ptr, !.size = v.cap,
                                         !.bytes = src]
    /\ last' = Call("copy_from_slice", 0, 1, FALSE, NoRange, 0, src)
    /\ UNCHANGED statics
    /\ UNCHANGED <<raceVars, mutVars, bufVars, sync>>

\* Bytes::clone(&self)
Clone(h) ==
    /\ Ready /\ h \in Live /\ FreeIds # {}
    /\ LET self == handles[h]
           c == clone(shareds, NewShared, self)
       IN /\ handles' = [handles EXCEPT ![h].data = c.data, ![NewId] = c.ret]
          /\ shareds' = c.shareds
          /\ last' = Call("clone", h, NewId, FALSE, NoRange, 0, as_slice(self))
    /\ UNCHANGED <<statics, heap>>
    /\ UNCHANGED <<raceVars, mutVars, bufVars, sync>>

\* Bytes::slice(&self, range)
Slice(h, r, overflow_checks) ==
    /\ Ready /\ h \in Live /\ FreeIds # {}
    /\ LET self == handles[h]
           start == range_start(r)
           end == range_end(r)
           panics == slice_panics(self.len, r, overflow_checks)
           c == clone(shareds, NewShared, self)
       IN /\ last' = [Call("slice", h, IF panics THEN 0 ELSE NewId, panics, r, 0,
                           as_slice(self)) EXCEPT !.checks = overflow_checks]
          /\ IF panics
             THEN UNCHANGED <<handles, shareds>>
             ELSE IF slice_is_empty(start, end)
                  THEN /\ handles' = [handles EXCEPT ![NewId] = BytesNew]
                       /\ UNCHANGED shareds
                  ELSE /\ handles' = [handles EXCEPT ![h].data = c.data,
                                                     ![NewId] = slice_view(c.ret, start, end)]
                       /\ shareds' = c.shareds
    /\ UNCHANGED <<statics, heap>>
    /\ UNCHANGED <<raceVars, mutVars, bufVars, sync>>

\* Bytes::split_off(&mut self, at)
SplitOff(h, at) ==
    /\ Ready /\ h \in Live /\ FreeIds # {}
    /\ LET self == handles[h]
           ok == split_in_bounds(at, self.len)
           c == clone(shareds, NewShared, self)
       IN /\ last' = Call("split_off", h, IF ok THEN NewId ELSE 0, ~ok, NoRange, at,
                          as_slice(self))
          /\ IF ~ok
             THEN UNCHANGED <<handles, shareds>>
             ELSE /\ handles' = [handles EXCEPT
                                    ![h] = set_len([self EXCEPT !.data = c.data], at),
                                    ![NewId] = inc_start(c.ret, at)]
                  /\ shareds' = c.shareds
    /\ UNCHANGED <<statics, heap>>
    /\ UNCHANGED <<raceVars, mutVars, bufVars, sync>>

\* Bytes::split_to(&mut self, at)
SplitTo(h, at) ==
    /\ Ready /\ h \in Live /\ FreeIds # {}
    /\ LET self == handles[h]
           ok == split_in_bounds(at, self.len)
           c == clone(shareds, NewShared, self)
       IN /\ last' = Call("split_to", h, IF ok THEN NewId ELSE 0, ~ok, NoRange, at,
                          as_slice(self))
          /\ IF ~ok
             THEN UNCHANGED <<handles, shareds>>
             ELSE /\ handles' = [handles EXCEPT
                                    ![h] = inc_start([self EXCEPT !.data = c.data], at),
                                    ![NewId] = set_len(c.ret, at)]
                  /\ shareds' = c.shareds
    /\ UNCHANGED <<statics, heap>>
    /\ UNCHANGED <<raceVars, mutVars, bufVars, sync>>

\* Bytes::get(&self, index)
Get(h, index) ==
    /\ Ready /\ h \in Live
    /\ LET self == handles[h]
           ok == get_in_bounds(index, self.len)
       IN last' = [Call("get", h, 0, ~ok, NoRange, index, as_slice(self))
                     EXCEPT !.val = IF ok THEN get(self, index) ELSE 0]
    /\ UNCHANGED memVars
    /\ UNCHANGED <<raceVars, mutVars, bufVars, sync>>

\* drop(bytes)
DropBytes(h) ==
    /\ Ready /\ h \in Live
    /\ LET d == drop_bytes(shareds, heap, handles[h]) IN
        /\ shareds' = d.shareds
        /\ heap' = d.heap
        /\ handles' = [handles EXCEPT ![h] = Dropped]
        /\ last' = Call("drop", h, 0, FALSE, NoRange, 0, as_slice(handles[h]))
    /\ UNCHANGED statics
    /\ UNCHANGED <<raceVars, mutVars, bufVars, sync>>

\* the caller has looked at the result of its last call and goes on
Return ==
    /\ last.op # "none"
    /\ last' = NoCall
    /\ UNCHANGED memVars
    /\ UNCHANGED <<raceVars, mutVars, bufVars, sync>>

Next ==
    \/ \E src \in Contents : FromStatic(src)
    \/ \E src \in Contents, slack \in Slacks, ptr \in {HeapEven, HeapOdd} :
          FromVec(src, Len(src) + slack, ptr)
    \/ \E src \in Contents, ptr \in {HeapEven, HeapOdd} : FromBox(src, ptr)
    \/ \E src \in Contents, ptr \in {HeapEven, HeapOdd} : CopyFromSlice(src, ptr)
    \/ \E h \in BytesIds : Clone(h)
    \/ \E h \in BytesIds, r \in Ranges :
          \E oc \in (IF range_overflows(r) THEN BOOLEAN ELSE {TRUE}) : Slice(h, r, oc)
    \/ \E h \in BytesIds, at \in 0..(MaxLen + 1) : SplitOff(h, at)
    \/ \E h \in BytesIds, at \in 0..(MaxLen + 1) : SplitTo(h, at)
    \/ \E h \in BytesIds : DropBytes(h)
    \/ Return

Spec == Init /\ [][Next]_vars

\* ---------------------------------------------------------------- SpecGet
\* the single-threaded program that builds values, clones, splits and drops
\* them, and reads bytes back with get
NextGet ==
    \/ \E src \in Contents : FromStatic(src)
    \/ \E src \in Contents, slack \in Slacks, ptr \in {HeapEven, HeapOdd} :
          FromVec(src, Len(src) + slack, ptr)
    \/ \E src \in Contents, ptr \in {HeapEven, HeapOdd} : FromBox(src, ptr)
    \/ \E h \in BytesIds : Clone(h)
    \/ \E h \in BytesIds, at \in 0..(MaxLen + 1) : SplitOff(h, at)
    \/ \E h \in BytesIds, at \in 0..(MaxLen + 1) : SplitTo(h, at)
    \/ \E h \in BytesIds, index \in Indexes : Get(h, index)
    \/ \E h \in BytesIds : DropBytes(h)
    \/ Return

SpecGet == Init /\ [][NextGet]_vars

\* ------------------------------------------------------------- SpecRace
\* Threads hold aliases of one heap allocation. clone (alone, or inside slice,
\* split_off and split_to) and drop advance one atomic access at a time.

\* the state after Bytes::from(Vec<u8>) / Bytes::from(Box<[u8]>) of a non-empty buffer
InitRace ==
    /\ statics = <<>>
    /\ \E src \in Contents \ {<<>>}, slack \in Slacks, ptr \in {HeapEven, HeapOdd} :
          LET v == from_vec(Len(src), Len(src) + slack, ptr, 1) IN
          /\ handles = [i \in BytesIds |-> IF i = 1 THEN v.ret ELSE NoBytes]
          /\ shareds = [k \in SharedIds |-> IF k = 1 THEN v.shared ELSE NoShared]
          /\ heap = [NoHeap EXCEPT !.state = "live", !.base = ptr,
                                   !.size = Len(src) + slack, !.bytes = src]
    /\ last = NoCall
    /\ pc = [t \in Threads |-> "idle"]
    /\ loc = [t \in Threads |-> NoLoc]
    /\ uaf = FALSE
    /\ buf_mut = NoBufMut
    /\ written = <<>>
    /\ cursor = NoCursor
    /\ got = <<>>
    /\ blocks = NoBlocks
    /\ put_loop = NoLoop
    /\ iter = NoIter
    /\ contract = TRUE
    /\ sync = NoSync

\* the calls that take a clone: clone(), slice(a..b), split_off(a), split_to(a),
\* with arguments that pass the call's assertions
RaceCalls(len) ==
    {[op |-> "clone", a |-> 0, b |-> 0]}
    \cup {[op |-> "slice", a |-> a, b |-> b] : a \in 0..len, b \in 0..len}
    \cup {[op |-> o, a |-> a, b |-> 0] : o \in {"split_off", "split_to"}, a \in 0..len}

\* &mut self or self by value: nobody else may be inside a call on the same value
Exclusive(op) == op \in {"split_off", "split_to", "drop"}
Busy(h) == \E t \in Threads : pc[t] # "idle" /\ loc[t].h = h
Borrowable(h, op) ==
    /\ h \in Live
    /\ IF Exclusive(op) THEN ~Busy(h)
       ELSE ~\E t \in Threads : pc[t] # "idle" /\ loc[t].h = h /\ Exclusive(loc[t].op)

\* what a freed header's reference count reads as: anything
Observed(k) ==
    IF shareds[k].state = "freed" THEN 0..(NThreads + 1) ELSE {shareds[k].ref_cnt}

\* the rest of the call once its clone c is taken: the new value gets id
after_clone(hs, h, id, op, a, b, c) ==
    CASE op = "clone" -> [hs EXCEPT ![id] = c]
      [] op = "slice" -> [hs EXCEPT ![id] = slice_view(c, a, b)]
      [] op = "split_off" -> [hs EXCEPT ![h] = set_len(@, a), ![id] = inc_start(c, a)]
      [] op = "split_to" -> [hs EXCEPT ![h] = inc_start(@, a), ![id] = set_len(c, a)]

Returned(l) == [l EXCEPT !.ret = NoBytes, !.calls = IF @ < 2 THEN @ + 1 ELSE @]

\* a call that touches no shared word: slice of an empty range (Bytes::new()),
\* or the clone of a STATIC value
CallLocal(t, h, call) ==
    /\ pc[t] = "idle" /\ Borrowable(h, call.op) /\ FreeIds # {}
    /\ call \in RaceCalls(handles[h].len)
    /\ call.op = "slice" => call.a <= call.b
    /\ \/ call.op = "slice" /\ slice_is_empty(call.a, call.b)
       \/ handles[h].vtable = "STATIC"
    /\ handles' = IF call.op = "slice" /\ slice_is_empty(call.a, call.b)
                  THEN [handles EXCEPT ![NewId] = BytesNew]
                  ELSE after_clone(handles, h, NewId, call.op, call.a, call.b,
                                   static_clone(shareds, handles[h]).ret)
    /\ loc' = [loc EXCEPT ![t] = Returned([NoLoc EXCEPT !.op = call.op, !.a = call.a,
                                  !.b = call.b, !.h = h, !.id = NewId, !.calls = loc[t].calls])]
    /\ UNCHANGED <<mutVars, bufVars, sync, statics, heap, shareds, last, pc, uaf>>

\* the first access of a clone: data.load(Ordering::Relaxed), and the dispatch on
\* the vtable and on the word's kind
CloneLoad(t, h, call) ==
    /\ pc[t] = "idle" /\ Borrowable(h, call.op) /\ FreeIds # {}
    /\ call \in RaceCalls(handles[h].len)
    /\ call.op = "slice" => call.a < call.b
    /\ handles[h].vtable # "STATIC"
    /\ LET self == handles[h] IN
        /\ loc' = [loc EXCEPT ![t] = [NoLoc EXCEPT !.op = call.op, !.a = call.a,
                                  !.b = call.b, !.h = h, !.id = NewId,
                                  !.shared = self.data, !.calls = loc[t].calls]]
        /\ pc' = [pc EXCEPT ![t] =
                    IF self.vtable = "SHARED" \/ KindOf(self.data) = KIND_SHARED
                    THEN "arc" ELSE "box_new"]
    /\ handles' = [handles EXCEPT ![NewId].alive = "pending"]
    /\ UNCHANGED <<mutVars, bufVars, sync, statics, heap, shareds, last, uaf>>

\* shallow_clone_arc on the header the load found
CloneArc(t) ==
    /\ pc[t] = "arc"
    /\ LET l == loc[t]
           self == handles[l.h]
           k == SharedIdx(l.shared)
       IN /\ \E v \in Observed(k) :
                 LET c == shallow_clone_arc([shareds EXCEPT ![k].ref_cnt = v],
                                            l.shared, self.ptr, self.len)
                 IN /\ shareds' = c.shareds
                    /\ handles' = after_clone(handles, l.h, l.id, l.op, l.a, l.b, c.ret)
          /\ uaf' = (uaf \/ shareds[k].state = "freed")
          /\ loc' = [loc EXCEPT ![t] = Returned(l)]
          /\ pc' = [pc EXCEPT ![t] = "idle"]
    /\ UNCHANGED <<mutVars, bufVars, sync, statics, heap, last>>

\* shallow_clone_vec: Box::new(Shared { buf, cap, ref_cnt: 2 }), Box::into_raw
CloneBoxNew(t) ==
    /\ pc[t] = "box_new" /\ FreeShared # {}
    /\ LET l == loc[t]
           self == handles[l.h]
           buf == IF self.vtable = "PROMOTABLE_EVEN" THEN ClearKind(l.shared) ELSE l.shared
       IN /\ shareds' = [shareds EXCEPT ![NewShared] = BoxShared(buf, self.ptr, self.len)]
          /\ loc' = [loc EXCEPT ![t].mine = SharedAddr(NewShared)]
          /\ pc' = [pc EXCEPT ![t] = "cas"]
    /\ UNCHANGED <<mutVars, bufVars, sync, statics, heap, handles, last, uaf>>

\* atom.compare_exchange(ptr, shared, AcqRel, Acquire) is Ok: the word is still
\* the one loaded; the header is installed and the clone returned
CloneCasOk(t) ==
    /\ pc[t] = "cas"
    /\ handles[loc[t].h].data = loc[t].shared
    /\ LET l == loc[t]
           self == handles[l.h]
       IN /\ handles' = after_clone([handles EXCEPT ![l.h].data = l.mine], l.h, l.id,
                                    l.op, l.a, l.b,
                                    Bytes(self.ptr, self.len, l.mine, "SHARED"))
          /\ loc' = [loc EXCEPT ![t] = Returned(l)]
          /\ pc' = [pc EXCEPT ![t] = "idle"]
    /\ UNCHANGED <<mutVars, bufVars, sync, statics, heap, shareds, last, uaf>>

\* compare_exchange is Err(actual): another thread installed its header first
CloneCasErr(t) ==
    /\ pc[t] = "cas"
    /\ handles[loc[t].h].data # loc[t].shared
    /\ loc' = [loc EXCEPT ![t].actual = handles[loc[t].h].data, ![t].lost = TRUE]
    /\ pc' = [pc EXCEPT ![t] = "err_arc"]
    /\ UNCHANGED <<mutVars, bufVars, sync, statics, heap, shareds, handles, last, uaf>>

\* the Err arm's tail expression: shallow_clone_arc(actual.cast(), offset, len)
CloneErrArc(t) ==
    /\ pc[t] = "err_arc"
    /\ LET l == loc[t]
           self == handles[l.h]
           k == SharedIdx(l.actual)
       IN /\ \E v \in Observed(k) :
                 LET c == shallow_clone_arc([shareds EXCEPT ![k].ref_cnt = v],
                                            l.actual, self.ptr, self.len)
                 IN /\ shareds' = c.shareds
                    /\ loc' = [loc EXCEPT ![t].ret = c.ret]
          /\ uaf' = (uaf \/ shareds[k].state = "freed")
          /\ pc' = [pc EXCEPT ![t] = "err_free"]
    /\ UNCHANGED <<mutVars, bufVars, sync, statics, heap, handles, last>>

\* the Err arm's end of scope: `let shared: Box<Shared> = Box::from_raw(actual)`
\* had its Shared moved out by mem::forget(*shared), so the box's memory is
\* released without Shared::drop running; then the clone is returned
CloneErrFree(t) ==
    /\ pc[t] = "err_free"
    /\ LET l == loc[t]
           k == SharedIdx(l.actual)
       IN /\ shareds' = [shareds EXCEPT ![k].state = "freed", ![k].frees = @ + 1]
          /\ handles' = after_clone(handles, l.h, l.id, l.op, l.a, l.b, l.ret)
          /\ loc' = [loc EXCEPT ![t] = Returned(l)]
          /\ pc' = [pc EXCEPT ![t] = "idle"]
    /\ UNCHANGED <<mutVars, bufVars, sync, statics, heap, last, uaf>>

\* drop of a value that owns no header: static_drop, or promotable_*_drop of a
\* value never cloned (free_boxed_slice)
DropLocal(t, h) ==
    /\ pc[t] = "idle" /\ Borrowable(h, "drop")
    /\ LET self == handles[h] IN
        /\ self.vtable = "STATIC"
             \/ (self.vtable # "SHARED" /\ KindOf(self.data) = KIND_UNSHARED)
        /\ heap' = drop_bytes(shareds, heap, self).heap
    /\ handles' = [handles EXCEPT ![h] = Dropped]
    /\ loc' = [loc EXCEPT ![t] = Returned([NoLoc EXCEPT !.op = "drop", !.h = h,
                                               !.calls = loc[t].calls])]
    /\ UNCHANGED <<mutVars, bufVars, sync, statics, shareds, last, pc, uaf>>

\* release_shared's fetch_sub(1, Release) for a value that owns a header
DropRelease(t, h) ==
    /\ pc[t] = "idle" /\ Borrowable(h, "drop")
    /\ LET self == handles[h]
           k == SharedIdx(self.data)
       IN /\ self.vtable = "SHARED"
               \/ (self.vtable \in {"PROMOTABLE_EVEN", "PROMOTABLE_ODD"}
                   /\ KindOf(self.data) = KIND_SHARED)
          /\ \E v \in Observed(k) :
                /\ shareds' = fetch_sub([shareds EXCEPT ![k].ref_cnt = v], self.data)
                /\ pc' = [pc EXCEPT ![t] = IF v # 1 THEN "idle" ELSE "drop_box"]
                /\ loc' = [loc EXCEPT ![t] =
                             LET l == [NoLoc EXCEPT !.op = "drop", !.h = h,
                                          !.shared = self.data, !.calls = loc[t].calls]
                             IN IF v # 1 THEN Returned(l) ELSE l]
          /\ uaf' = (uaf \/ shareds[k].state = "freed")
    /\ handles' = [handles EXCEPT ![h] = Dropped]
    /\ UNCHANGED <<mutVars, bufVars, sync, statics, heap, last>>

\* what Shared::drop reads back as self.buf and self.cap: the fields as they
\* were written while the header is live; in a header that is already
\* deallocated either the same ("intact": the allocator left the block alone),
\* or whatever the allocator put there: a cap above isize::MAX ("panic"), or
\* any other pair that is not an allocation ("fault")
HeaderReads(k) ==
    IF shareds[k].state = "freed" THEN {"intact", "panic", "fault"} ELSE {"intact"}

\* release_shared's drop(Box::from_raw(shared)) by the thread that saw 1.
\* "intact": Shared::drop deallocates the buffer, then the box is deallocated.
\* "panic": Layout::from_size_align(cap, 1).unwrap() panics before dealloc; the
\* thread unwinds, the unwind deallocates the box, the buffer is never
\* deallocated, the thread ends and the other threads go on.
\* "fault": dealloc is given what is no allocation and the process ends, the
\* buffer and the box as they were.
DropBox(t) ==
    /\ pc[t] = "drop_box"
    /\ \E read \in HeaderReads(SharedIdx(loc[t].shared)) :
          LET k == SharedIdx(loc[t].shared)
              d == drop_box_shared(shareds, heap, loc[t].shared)
          IN
          /\ shareds' = CASE read = "intact" -> d.shareds
                           [] read = "panic" ->
                                [shareds EXCEPT ![k].state = "freed", ![k].frees = @ + 1]
                           [] read = "fault" -> shareds
          /\ heap' = IF read = "intact" THEN d.heap ELSE heap
          /\ loc' = IF read = "intact" THEN [loc EXCEPT ![t] = Returned(loc[t])] ELSE loc
          /\ pc' = CASE read = "intact" -> [pc EXCEPT ![t] = "idle"]
                      [] read = "panic" -> [pc EXCEPT ![t] = "panicked"]
                      [] read = "fault" -> [u \in Threads |-> "crashed"]
    /\ uaf' = (uaf \/ shareds[SharedIdx(loc[t].shared)].state = "freed")
    /\ UNCHANGED <<mutVars, bufVars, sync, statics, handles, last>>

AnyCall == UNION {RaceCalls(n) : n \in 0..MaxLen}

NextRace ==
    \/ \E t \in Threads, h \in BytesIds, call \in AnyCall : CallLocal(t, h, call)
    \/ \E t \in Threads, h \in BytesIds, call \in AnyCall : CloneLoad(t, h, call)
    \/ \E t \in Threads : CloneArc(t)
    \/ \E t \in Threads : CloneBoxNew(t)
    \/ \E t \in Threads : CloneCasOk(t)
    \/ \E t \in Threads : CloneCasErr(t)
    \/ \E t \in Threads : CloneErrArc(t)
    \/ \E t \in Threads : CloneErrFree(t)
    \/ \E t \in Threads, h \in BytesIds : DropLocal(t, h)
    \/ \E t \in Threads, h \in BytesIds : DropRelease(t, h)
    \/ \E t \in Threads : DropBox(t)

SpecRace == InitRace /\ [][NextRace]_vars

\* ---------------------------------------------------------------- BytesMut
\* a byte of an allocation that was never written
Uninit == -1
Addrs == {HeapEven, HeapOdd}

\* struct BytesMut { ptr, len, cap }, with the allocation ptr points to: mem holds
\* its bytes up to the last one ever written, the rest of the cap bytes is
\* uninitialized
BytesMut(ptr, len, cap, mem) ==
    [kind |-> "BytesMut", ptr |-> ptr, len |-> len, cap |-> cap, mem |-> mem]

\* BytesMut::new
bytes_mut_new == BytesMut(DanglingAddr, 0, 0, <<>>)

\* alloc(layout) (from nothing) and realloc(old_ptr, old_layout, size): size
\* bytes, the old ones carried over as far as they fit
realloc(mem, size) == IF Len(mem) <= size THEN mem ELSE SubSeq(mem, 1, size)

\* mutant: the capacity is checked against usize::MAX
cap_in_range_usize(cap) == cap <= USIZE_MAX

\* assert!(cap <= isize::MAX as usize) of with_capacity, inner_reserve and grow
cap_in_range(cap) == cap <= ISIZE_MAX

\* BytesMut::with_capacity(cap), the allocator answering ptr
with_capacity(cap, ptr) ==
    IF ~cap_in_range(cap) THEN [panic |-> TRUE, b |-> NoBufMut]
    ELSE [panic |-> FALSE, b |-> BytesMut(ptr, 0, cap, realloc(<<>>, cap))]

\* BytesMut::as_slice: &[] when cap == 0, else from_raw_parts(ptr, len)
mut_as_slice(b) ==
    IF b.cap = 0 THEN <<>>
    ELSE [i \in 1..b.len |-> IF i <= Len(b.mem) THEN b.mem[i] ELSE Uninit]

\* mutant: growth by one byte instead of doubling
grow_cap_by_one(cap) == cap + 1

\* grow: (1, ..) if self.cap == 0, else 2 * self.cap
grow_cap(cap) == IF cap = 0 THEN 1 ELSE 2 * cap

\* BytesMut::grow, the allocator answering ptr
grow(b, ptr) ==
    LET cap == grow_cap(b.cap) IN
    IF ~cap_in_range(cap) THEN [panic |-> TRUE, b |-> b]
    ELSE [panic |-> FALSE,
          b |-> [b EXCEPT !.ptr = ptr, !.cap = cap, !.mem = realloc(b.mem, cap)]]

\* ptr.add(off).copy_from(src, src.len()): src lands at offset off
copy_at(mem, off, src) ==
    LET top == IF Len(mem) >= off + Len(src) THEN Len(mem) ELSE off + Len(src) IN
    [i \in 1..top |-> IF i > off /\ i <= off + Len(src) THEN src[i - off]
                      ELSE IF i <= Len(mem) THEN mem[i] ELSE Uninit]

\* BytesMut::push
push(b, byte, ptr) ==
    LET g == IF b.len = b.cap THEN grow(b, ptr) ELSE [panic |-> FALSE, b |-> b] IN
    IF g.panic THEN g
    ELSE [panic |-> FALSE,
          b |-> [g.b EXCEPT !.mem = copy_at(@, b.len, <<byte>>), !.len = b.len + 1]]

\* Option::None where a byte may be returned
None == 256

\* mutant: the first byte is returned instead of the last
pop_front(b) ==
    IF b.len = 0 THEN [ret |-> None, b |-> b]
    ELSE [ret |-> b.mem[1], b |-> [b EXCEPT !.len = b.len - 1]]

\* BytesMut::pop: None when empty, else len -= 1 and Some(ptr.add(len).read())
pop(b) ==
    IF b.len = 0 THEN [ret |-> None, b |-> b]
    ELSE [ret |-> b.mem[b.len], b |-> [b EXCEPT !.len = b.len - 1]]

\* BytesMut::inner_reserve(cap), the allocator answering ptr
inner_reserve(b, cap, ptr) ==
    IF ~cap_in_range(cap) THEN [panic |-> TRUE, b |-> b]
    ELSE [panic |-> FALSE,
          b |-> [b EXCEPT !.ptr = ptr, !.cap = cap, !.mem = realloc(b.mem, cap)]]

\* self.cap + (res - rem) as a build without overflow checks computes it
reserve_need(cap, res, rem) == WrapAdd(cap, res - rem)

\* BytesMut::reserve(res); where overflow checks are compiled in, a sum past
\* usize::MAX panics
reserve(b, res, ptr, overflow_checks) ==
    LET rem == b.cap - b.len IN
    IF rem >= res THEN [panic |-> FALSE, b |-> b]
    ELSE IF overflow_checks /\ b.cap + (res - rem) > USIZE_MAX THEN [panic |-> TRUE, b |-> b]
    ELSE inner_reserve(b, reserve_need(b.cap, res, rem), ptr)

\* extend_from_slice after its reserve: copy slice to ptr + len, len += slice.len()
extend_copy(b, len, slice) ==
    [b EXCEPT !.mem = copy_at(@, len, slice), !.len = len + Len(slice)]

\* BytesMut::extend_from_slice
extend_from_slice(b, slice, ptr, overflow_checks) ==
    LET r == reserve(b, Len(slice), ptr, overflow_checks) IN
    IF r.panic THEN r ELSE [panic |-> FALSE, b |-> extend_copy(r.b, b.len, slice)]

\* <BytesMut as BufMut>::remaining_mut, <Vec<u8> as BufMut>::remaining_mut
remaining_mut(b) == ISIZE_MAX - b.len

\* <BytesMut as BufMut>::chuncks_mut: UninitSlice::from_raw_parts(ptr, cap)[len..]
chuncks_mut(b) == [off |-> b.len, len |-> b.cap - b.len]

\* <BytesMut as BufMut>::advance: assert!(count <= rem), set_len(len + count)
advance(b, count) ==
    IF ~(count <= b.cap - b.len) THEN [panic |-> TRUE, b |-> b]
    ELSE [panic |-> FALSE, b |-> [b EXCEPT !.len = b.len + count]]

\* <BytesMut as BufMut>::put_slice
put_slice(b, src, ptr, overflow_checks) == extend_from_slice(b, src, ptr, overflow_checks)

\* <BytesMut as BufMut>::put of a &[u8]: reserve(src.remaining()), then the one
\* chunk of the source is extended from and advanced over
put(b, src, ptr, overflow_checks) ==
    LET r == reserve(b, Len(src), ptr, overflow_checks) IN
    IF r.panic \/ Len(src) = 0 THEN r
    ELSE extend_from_slice(r.b, src, ptr, overflow_checks)

\* mutant: the vector is built with len == cap
to_vec_full(b) == [b EXCEPT !.kind = "Vec", !.len = b.cap]

\* BytesMut::to_vec: Vec::from_raw_parts(ptr, len, cap), self forgotten
to_vec(b) == [b EXCEPT !.kind = "Vec"]

\* Vec::reserve(additional): nothing when the spare capacity covers it; else
\* the allocation grows to new_cap, with a capacity-overflow panic when the
\* needed or the new capacity exceeds isize::MAX
vec_reserve(v, additional, ptr, new_cap) ==
    IF additional <= v.cap - v.len THEN [panic |-> FALSE, b |-> v]
    ELSE IF ~cap_in_range(v.len + additional) \/ ~cap_in_range(new_cap)
         THEN [panic |-> TRUE, b |-> v]
         ELSE [panic |-> FALSE,
               b |-> [v EXCEPT !.ptr = ptr, !.cap = new_cap, !.mem = realloc(v.mem, new_cap)]]

\* <Vec<u8> as BufMut>::put_slice: Vec::extend_from_slice(src), which reserves
\* src.len() and copies src behind the len bytes
vec_put_slice(v, src, ptr, new_cap) ==
    LET r == vec_reserve(v, Len(src), ptr, new_cap) IN
    IF r.panic THEN r ELSE [panic |-> FALSE, b |-> extend_copy(r.b, v.len, src)]

\* <Vec<u8> as BufMut>::put of a &[u8]: self.reserve(src.remaining()), then the
\* one chunk of the source is extended from and advanced over
vec_put(v, src, ptr, new_cap) ==
    LET r == vec_reserve(v, Len(src), ptr, new_cap) IN
    IF r.panic \/ Len(src) = 0 THEN r
    ELSE vec_put_slice(r.b, src, ptr, new_cap)

\* The allocator's ledger for the BytesMut. owned: the block self.ptr points to
\* ("empty": obtained with a zero-size layout, "sized": with a larger one);
\* lost: the blocks that were obtained and that no pointer refers to any more;
\* frees: the dealloc calls; handed: the blocks passed on to a Vec<u8>.
BlockOf(size) == IF size = 0 THEN "empty" ELSE "sized"

\* the block bl.owned is no longer pointed to by anything
unreferenced(bl) ==
    [bl EXCEPT !.owned = "none", !.lost = IF bl.owned # "none" THEN @ + 1 ELSE @]

\* let ptr = alloc(layout), stored into self.ptr: a new block of layout.size()
\* bytes, a zero-size request being answered with a block of its own as the
\* system allocator answers it; what self.ptr pointed to before stays as it was
alloc(bl, size) == [unreferenced(bl) EXCEPT !.owned = BlockOf(size)]

\* realloc(old_ptr, old_layout, size) in the ledger: the owned block, resized
realloc_block(bl, size) == [bl EXCEPT !.owned = BlockOf(size)]

\* dealloc(self.ptr, layout)
dealloc_block(bl) == [bl EXCEPT !.owned = "none", !.frees = @ + 1]

\* grow and inner_reserve: alloc(layout) if self.cap == 0, else realloc
allocate(bl, cap, size) == IF cap = 0 THEN alloc(bl, size) ELSE realloc_block(bl, size)

\* the ledger after a call on b that answered r: grow and inner_reserve are the
\* calls that change the capacity, and they panic before they allocate
after_call(bl, b, r) ==
    IF r.panic \/ r.b.cap = b.cap THEN bl ELSE allocate(bl, b.cap, r.b.cap)

\* <BytesMut as Drop>::drop: dealloc if self.cap != 0, and self is gone
drop_bytes_mut(b, bl) == IF b.cap # 0 THEN dealloc_block(bl) ELSE unreferenced(bl)

\* to_vec in the ledger: Vec::from_raw_parts(ptr, len, cap) takes the block over
\* and self is forgotten; a vector of capacity 0 owns no block and frees none
hand_over(b, bl) ==
    IF b.cap # 0 THEN [bl EXCEPT !.owned = "none", !.handed = @ + 1] ELSE unreferenced(bl)

\* BytesMut::set_len(len): debug_assert!(len <= self.cap), self.len = len
bytes_mut_set_len(b, len, debug_assertions) ==
    IF debug_assertions /\ ~(len <= b.cap) THEN [panic |-> TRUE, b |-> b]
    ELSE [panic |-> FALSE, b |-> [b EXCEPT !.len = len]]

\* the Safety section of BytesMut::set_len: len is at most self.cap, and all
\* bytes in 0..len are initialized
set_len_safe(b, len) ==
    /\ len <= b.cap
    /\ len <= Len(b.mem)
    /\ \A i \in 1..len : b.mem[i] # Uninit

\* <BytesMut as fmt::Write>::write_str(src): put_slice(src) and Ok(()) if
\* self.remaining_mut() >= self.len(), else Err(fmt::Error)
write_str(b, src, ptr, overflow_checks) ==
    IF remaining_mut(b) >= b.len
    THEN LET e == put_slice(b, src, ptr, overflow_checks) IN
         [panic |-> e.panic, err |-> FALSE, b |-> e.b]
    ELSE [panic |-> FALSE, err |-> TRUE, b |-> b]

\* <BytesMut as fmt::Write>::write_fmt(args): fmt::write(self, args) hands the
\* pieces the arguments format to, in order, to write_str and stops at the first
\* error; wrote is what was appended, bl the allocator's ledger
RECURSIVE write_fmt(_, _, _, _, _)
write_fmt(b, bl, pieces, ptr, overflow_checks) ==
    IF pieces = <<>> THEN [panic |-> FALSE, err |-> FALSE, b |-> b, bl |-> bl, wrote |-> <<>>]
    ELSE LET w == write_str(b, Head(pieces), ptr, overflow_checks) IN
         IF w.panic \/ w.err
         THEN [panic |-> w.panic, err |-> w.err, b |-> w.b, bl |-> bl, wrote |-> <<>>]
         ELSE LET r == write_fmt(w.b, after_call(bl, b, w), Tail(pieces), ptr,
                                 overflow_checks)
              IN [r EXCEPT !.wrote = Head(pieces) \o @]

\* ----------------------------------------------------------------- SpecMut
\* One BytesMut is built, written to, and in the end frozen into a Bytes or
\* turned into a Vec<u8> that is written to through BufMut.

\* the bytes given to push, and the lengths of the slices given to
\* extend_from_slice and put (short ones, and the one that brings the length
\* past isize::MAX) and to put_slice (also the one that brings it to isize::MAX)
PushBytes == {7}
SrcLens(len) == {0, 1, MaxLen, ISIZE_MAX - len + 1}
PutLens(len) == SrcLens(len) \cup {ISIZE_MAX - len}
\* the capacities asked of with_capacity (small ones, the ones around isize::MAX,
\* usize::MAX), the amounts asked of reserve
Capacities == {0, 1, MaxLen, ISIZE_MAX - 1, ISIZE_MAX, ISIZE_MAX + 1, USIZE_MAX}
Reserves(len) == {0, MaxLen, ISIZE_MAX - len, ISIZE_MAX - len + 1, USIZE_MAX}
\* the lengths committed with advance
AdvanceLens == {0, 1, MaxLen}
\* buffers are explored up to MaxMutLen bytes, and one call further when that
\* call brings the length to isize::MAX or past it
Short(len) == len <= MaxMutLen
WithinBounds(len, n) == Short(len) /\ (len + n <= MaxMutLen \/ len + n >= ISIZE_MAX)
\* whether the build's overflow checks matter to reserve(res)
ChecksOf(b, res) ==
    IF b.cap - b.len < res /\ b.len + res > USIZE_MAX THEN BOOLEAN ELSE {TRUE}

MutCall(op, panic, at, src, val) ==
    [NoCall EXCEPT !.op = op, !.panic = panic, !.at = at, !.src = src, !.val = val,
                   !.orig = mut_as_slice(buf_mut), !.pre = buf_mut]

\* a BytesMut the caller owns. One whose len exceeds its cap, or whose set_len
\* was called against its Safety section, has left the type's invariant:
\* whatever is called on it next is undefined, and the model stops.
Usable == buf_mut.kind = "BytesMut" /\ buf_mut.len <= buf_mut.cap /\ contract

\* the lengths given to set_len: none, one, the capacity and one past it
SetLens(b) == {n \in {0, 1, b.cap, b.cap + 1} : Short(n)}
\* whether the build's debug assertions matter to set_len(len)
DebugOf(b, len) == IF len <= b.cap THEN {TRUE} ELSE BOOLEAN
\* the lengths of the strings given to write_str: those given to put_slice, and
\* one byte where the buffer is so long that write_str refuses
StrLens(b) == IF remaining_mut(b) >= b.len THEN SrcLens(b.len) ELSE {1}
\* what write_fmt's arguments format to: nothing, one piece, two pieces
Pieces == {<<>>, <<Content(1)>>, <<Content(1), Content(MaxLen)>>}
\* the pieces one after the other
RECURSIVE concat(_)
concat(pieces) == IF pieces = <<>> THEN <<>> ELSE Head(pieces) \o concat(Tail(pieces))

\* BytesMut::new()
BytesMutNew ==
    /\ Ready /\ buf_mut.kind = "none"
    /\ buf_mut' = bytes_mut_new
    /\ written' = <<>>
    /\ last' = MutCall("new", FALSE, 0, <<>>, 0)
    /\ blocks' = NoBlocks
    /\ UNCHANGED memVars
    /\ UNCHANGED <<raceVars, bufVars, sync>>

\* BytesMut::with_capacity(cap)
WithCapacity(cap, ptr) ==
    /\ Ready /\ buf_mut.kind = "none"
    /\ LET w == with_capacity(cap, ptr) IN
        /\ buf_mut' = w.b
        /\ last' = MutCall("with_capacity", w.panic, cap, <<>>, 0)
        /\ blocks' = IF w.panic THEN blocks ELSE alloc(blocks, cap)
    /\ written' = <<>>
    /\ UNCHANGED memVars
    /\ UNCHANGED <<raceVars, bufVars, sync>>

\* BytesMut::push(b)
Push(byte, ptr) ==
    /\ Ready /\ Usable /\ WithinBounds(buf_mut.len, 1)
    /\ LET p == push(buf_mut, byte, ptr) IN
        /\ buf_mut' = p.b
        /\ written' = IF p.panic THEN written ELSE Append(written, byte)
        /\ last' = MutCall("push", p.panic, 1, <<byte>>, byte)
        /\ blocks' = after_call(blocks, buf_mut, p)
    /\ UNCHANGED memVars
    /\ UNCHANGED <<raceVars, bufVars, sync>>

\* BytesMut::pop()
Pop ==
    /\ Ready /\ Usable /\ Short(buf_mut.len)
    /\ LET p == pop(buf_mut) IN
        /\ buf_mut' = p.b
        /\ written' = IF written = <<>> THEN <<>> ELSE SubSeq(written, 1, Len(written) - 1)
        /\ last' = MutCall("pop", FALSE, 0, <<>>, p.ret)
    /\ UNCHANGED blocks
    /\ UNCHANGED memVars
    /\ UNCHANGED <<raceVars, bufVars, sync>>

\* BytesMut::extend_from_slice(slice)
ExtendFromSlice(slice, ptr, overflow_checks) ==
    /\ Ready /\ Usable /\ WithinBounds(buf_mut.len, Len(slice))
    /\ LET e == extend_from_slice(buf_mut, slice, ptr, overflow_checks) IN
        /\ buf_mut' = e.b
        /\ written' = IF e.panic THEN written ELSE written \o slice
        /\ last' = [MutCall("extend_from_slice", e.panic, Len(slice), slice, 0)
                       EXCEPT !.checks = overflow_checks]
        /\ blocks' = after_call(blocks, buf_mut, e)
    /\ UNCHANGED memVars
    /\ UNCHANGED <<raceVars, bufVars, sync>>

\* BytesMut::reserve(res)
Reserve(res, ptr, overflow_checks) ==
    /\ Ready /\ Usable /\ Short(buf_mut.len)
    /\ LET r == reserve(buf_mut, res, ptr, overflow_checks) IN
        /\ buf_mut' = r.b
        /\ last' = [MutCall("reserve", r.panic, res, <<>>, 0)
                       EXCEPT !.checks = overflow_checks]
        /\ blocks' = after_call(blocks, buf_mut, r)
    /\ UNCHANGED written
    /\ UNCHANGED memVars
    /\ UNCHANGED <<raceVars, bufVars, sync>>

\* <BytesMut as BufMut>::put_slice(src)
PutSlice(src, ptr, overflow_checks) ==
    /\ Ready /\ Usable /\ WithinBounds(buf_mut.len, Len(src))
    /\ LET e == put_slice(buf_mut, src, ptr, overflow_checks) IN
        /\ buf_mut' = e.b
        /\ written' = IF e.panic THEN written ELSE written \o src
        /\ last' = [MutCall("put_slice", e.panic, Len(src), src, 0)
                       EXCEPT !.checks = overflow_checks]
        /\ blocks' = after_call(blocks, buf_mut, e)
    /\ UNCHANGED memVars
    /\ UNCHANGED <<raceVars, bufVars, sync>>

\* <BytesMut as BufMut>::put(src) of a &[u8]
Put(src, ptr, overflow_checks) ==
    /\ Ready /\ Usable /\ WithinBounds(buf_mut.len, Len(src))
    /\ LET e == put(buf_mut, src, ptr, overflow_checks) IN
        /\ buf_mut' = e.b
        /\ written' = IF e.panic THEN written ELSE written \o src
        /\ last' = [MutCall("put", e.panic, Len(src), src, 0)
                       EXCEPT !.checks = overflow_checks]
        /\ blocks' = after_call(blocks, buf_mut, e)
    /\ UNCHANGED memVars
    /\ UNCHANGED <<raceVars, bufVars, sync>>

\* the caller copies src into chuncks_mut() when it fits there, then commits it
\* with <BytesMut as BufMut>::advance(src.len())
Advance(src) ==
    /\ Ready /\ Usable /\ WithinBounds(buf_mut.len, Len(src))
    /\ LET chunck == chuncks_mut(buf_mut)
           fits == Len(src) <= chunck.len
           filled == IF fits THEN [buf_mut EXCEPT !.mem = copy_at(@, chunck.off, src)]
                     ELSE buf_mut
           a == advance(filled, Len(src))
       IN /\ buf_mut' = a.b
          /\ written' = IF a.panic THEN written ELSE written \o src
          /\ last' = MutCall("advance", a.panic, Len(src), src, 0)
    /\ UNCHANGED blocks
    /\ UNCHANGED memVars
    /\ UNCHANGED <<raceVars, bufVars, sync>>

\* BytesMut::set_len(len), called directly: the bytes in 0..len are the content
\* from then on
SetLen(len, debug_assertions) ==
    /\ Ready /\ Usable /\ Short(buf_mut.len)
    /\ LET s == bytes_mut_set_len(buf_mut, len, debug_assertions) IN
        /\ buf_mut' = s.b
        /\ written' = IF s.panic THEN written
                      ELSE [i \in 1..len |-> IF i <= Len(written) THEN written[i]
                                             ELSE IF i <= Len(buf_mut.mem) THEN buf_mut.mem[i]
                                             ELSE Uninit]
        /\ last' = [MutCall("set_len", s.panic, len, <<>>, 0)
                       EXCEPT !.debug = debug_assertions]
        /\ contract' = (s.panic \/ set_len_safe(buf_mut, len))
    /\ UNCHANGED blocks
    /\ UNCHANGED memVars
    /\ UNCHANGED <<raceVars, cursor, got, put_loop, iter, sync>>

\* <BytesMut as fmt::Write>::write_str(src)
WriteStr(src, ptr, overflow_checks) ==
    /\ Ready /\ Usable
    /\ WithinBounds(buf_mut.len, Len(src)) \/ remaining_mut(buf_mut) < buf_mut.len
    /\ LET w == write_str(buf_mut, src, ptr, overflow_checks) IN
        /\ buf_mut' = w.b
        /\ written' = IF w.panic \/ w.err THEN written ELSE written \o src
        /\ last' = [MutCall("write_str", w.panic, Len(src), src, 0)
                       EXCEPT !.checks = overflow_checks, !.err = w.err]
        /\ blocks' = after_call(blocks, buf_mut, w)
    /\ UNCHANGED memVars
    /\ UNCHANGED <<raceVars, bufVars, sync>>

\* <BytesMut as fmt::Write>::write_fmt(args), as write!(buf, ..) calls it
WriteFmt(pieces, ptr, overflow_checks) ==
    /\ Ready /\ Usable
    /\ WithinBounds(buf_mut.len, Len(concat(pieces))) \/ remaining_mut(buf_mut) < buf_mut.len
    /\ LET w == write_fmt(buf_mut, blocks, pieces, ptr, overflow_checks) IN
        /\ buf_mut' = w.b
        /\ written' = written \o w.wrote
        /\ last' = [MutCall("write_fmt", w.panic, Len(pieces), concat(pieces), 0)
                       EXCEPT !.checks = overflow_checks, !.err = w.err]
        /\ blocks' = w.bl
    /\ UNCHANGED memVars
    /\ UNCHANGED <<raceVars, bufVars, sync>>

\* BytesMut::freeze(): self.to_vec().into()
Freeze ==
    /\ Ready /\ Usable
    /\ LET v == to_vec(buf_mut)
           f == from_vec(v.len, v.cap, v.ptr, 1)
       IN /\ handles' = [handles EXCEPT ![1] = f.ret]
          /\ shareds' = [shareds EXCEPT ![1] = f.shared]
          /\ heap' = IF v.cap = 0 THEN NoHeap
                     ELSE [NoHeap EXCEPT !.state = "live", !.base = v.ptr, !.size = v.cap,
                                         !.bytes = mut_as_slice(v)]
    /\ buf_mut' = [NoBufMut EXCEPT !.kind = "frozen"]
    /\ last' = [MutCall("freeze", FALSE, 0, <<>>, 0) EXCEPT !.ret = 1]
    /\ blocks' = hand_over(buf_mut, blocks)
    /\ UNCHANGED <<statics, written>>
    /\ UNCHANGED <<raceVars, bufVars, sync>>

\* BytesMut::to_vec()
ToVec ==
    /\ Ready /\ Usable
    /\ buf_mut' = to_vec(buf_mut)
    /\ last' = MutCall("to_vec", FALSE, 0, <<>>, 0)
    /\ UNCHANGED written
    /\ blocks' = hand_over(buf_mut, blocks)
    /\ UNCHANGED memVars
    /\ UNCHANGED <<raceVars, bufVars, sync>>

\* the BytesMut goes out of scope: <BytesMut as Drop>::drop
DropMut ==
    /\ Ready /\ Usable
    /\ blocks' = drop_bytes_mut(buf_mut, blocks)
    /\ buf_mut' = [NoBufMut EXCEPT !.kind = "dropped"]
    /\ last' = [NoCall EXCEPT !.op = "drop_mut"]
    /\ UNCHANGED written
    /\ UNCHANGED memVars
    /\ UNCHANGED <<raceVars, bufVars, sync>>

\* <Vec<u8> as BufMut>::put_slice(src)
VecPutSlice(src, ptr, new_cap) ==
    /\ Ready /\ buf_mut.kind = "Vec" /\ WithinBounds(buf_mut.len, Len(src))
    /\ LET e == vec_put_slice(buf_mut, src, ptr, new_cap) IN
        /\ buf_mut' = e.b
        /\ written' = IF e.panic THEN written ELSE written \o src
        /\ last' = MutCall("put_slice", e.panic, Len(src), src, 0)
    /\ UNCHANGED blocks
    /\ UNCHANGED memVars
    /\ UNCHANGED <<raceVars, bufVars, sync>>

\* <Vec<u8> as BufMut>::put(src) of a &[u8]
VecPut(src, ptr, new_cap) ==
    /\ Ready /\ buf_mut.kind = "Vec" /\ WithinBounds(buf_mut.len, Len(src))
    /\ LET e == vec_put(buf_mut, src, ptr, new_cap) IN
        /\ buf_mut' = e.b
        /\ written' = IF e.panic THEN written ELSE written \o src
        /\ last' = MutCall("put", e.panic, Len(src), src, 0)
    /\ UNCHANGED blocks
    /\ UNCHANGED memVars
    /\ UNCHANGED <<raceVars, bufVars, sync>>

\* the caller copies src into <Vec<u8> as BufMut>::chuncks_mut() when it fits
\* there, then commits it with <Vec<u8> as BufMut>::advance(src.len())
VecAdvance(src) ==
    /\ Ready /\ buf_mut.kind = "Vec" /\ WithinBounds(buf_mut.len, Len(src))
    /\ LET chunck == chuncks_mut(buf_mut)
           fits == Len(src) <= chunck.len
           filled == IF fits THEN [buf_mut EXCEPT !.mem = copy_at(@, chunck.off, src)]
                     ELSE buf_mut
           a == advance(filled, Len(src))
       IN /\ buf_mut' = a.b
          /\ written' = IF a.panic THEN written ELSE written \o src
          /\ last' = MutCall("advance", a.panic, Len(src), src, 0)
    /\ UNCHANGED blocks
    /\ UNCHANGED memVars
    /\ UNCHANGED <<raceVars, bufVars, sync>>

\* the capacity Vec's amortized growth settles on for a need: the largest of
\* twice the old capacity, the need, and 8 (the least capacity a Vec<u8>
\* allocates)
VecCaps(v, n) ==
    LET need == v.len + n
        twice == 2 * v.cap
        cap == IF twice >= need THEN twice ELSE need
    IN {IF cap >= 8 THEN cap ELSE 8}

NextMut ==
    \/ BytesMutNew
    \/ \E cap \in Capacities, ptr \in Addrs : WithCapacity(cap, ptr)
    \/ \E byte \in PushBytes, ptr \in Addrs : Push(byte, ptr)
    \/ Pop
    \/ \E n \in SrcLens(buf_mut.len), ptr \in Addrs : ExtendFromSlice(Content(n), ptr, TRUE)
    \/ \E res \in Reserves(buf_mut.len), ptr \in Addrs :
          \E oc \in ChecksOf(buf_mut, res) : Reserve(res, ptr, oc)
    \/ \E n \in PutLens(buf_mut.len), ptr \in Addrs : PutSlice(Content(n), ptr, TRUE)
    \/ \E n \in SrcLens(buf_mut.len), ptr \in Addrs : Put(Content(n), ptr, TRUE)
    \/ \E n \in AdvanceLens : Advance(Content(n))
    \/ Freeze
    \/ ToVec
    \/ DropMut
    \/ \E n \in PutLens(buf_mut.len), ptr \in Addrs :
          \E c \in VecCaps(buf_mut, n) : VecPutSlice(Content(n), ptr, c)
    \/ Return

SpecMut == Init /\ [][NextMut]_vars

\* ------------------------------------------------------------ SpecMutFull
\* SpecMut with the other ways to write to the buffer: the unsafe set_len,
\* fmt::Write, and put and advance on the Vec<u8>.
NextMutFull ==
    \/ NextMut
    \/ \E len \in SetLens(buf_mut) : \E d \in DebugOf(buf_mut, len) : SetLen(len, d)
    \/ \E n \in StrLens(buf_mut), ptr \in Addrs : WriteStr(Content(n), ptr, TRUE)
    \/ \E pieces \in Pieces, ptr \in Addrs : WriteFmt(pieces, ptr, TRUE)
    \/ \E n \in SrcLens(buf_mut.len), ptr \in Addrs :
          \E c \in VecCaps(buf_mut, n) : VecPut(Content(n), ptr, c)
    \/ \E n \in AdvanceLens : VecAdvance(Content(n))

SpecMutFull == Init /\ [][NextMutFull]_vars

\* --------------------------------------------------------------- SpecOrder
\* The memory orderings of the reference count. Threads own clones of one
\* Shared value; each reads the buffer, clones and drops what it owns. Every
\* thread carries a vector clock, and so does the release sequence on ref_cnt.

\* (*shared).ref_cnt.fetch_add(1, Ordering::Release)
FETCH_ADD_ORDER == "Release"
\* (*shared).ref_cnt.fetch_sub(1, Ordering::Release)
FETCH_SUB_ORDER == "Release"

\* whether an atomic read-modify-write with this ordering is an acquire / a
\* release operation
Acquires(order) == order \in {"Acquire", "AcqRel", "SeqCst"}
Releases(order) == order \in {"Release", "AcqRel", "SeqCst"}

Join(a, b) == [u \in Threads |-> IF a[u] >= b[u] THEN a[u] ELSE b[u]]

\* thread t uses the buffer or the header: the use carries t's own time
use(s, t) == [s EXCEPT !.used[t] = s.clock[t][t]]

\* an atomic read-modify-write of ref_cnt by thread t: an acquire takes in what
\* the release sequence carries, a release adds to it what t has seen and done
rmw(s, t, order) ==
    LET seen == IF Acquires(order) THEN Join(s.clock[t], s.released) ELSE s.clock[t] IN
    [use(s, t) EXCEPT
        !.released = IF Releases(order) THEN Join(@, seen) ELSE @,
        !.clock[t] = IF Releases(order) THEN [seen EXCEPT ![t] = @ + 1] ELSE seen]

\* every use another thread made of the buffer and the header happens before
\* what thread t does next
OrderedAfterAll(s, t) == \A u \in Threads \ {t} : s.used[u] <= s.clock[t][u]

\* the state after Bytes::from(Vec<u8>) of a vector with spare capacity, cloned
\* once for every further thread, each thread started with a value of its own
InitOrder ==
    /\ statics = <<>>
    /\ \E src \in Contents \ {<<>>}, ptr \in {HeapEven, HeapOdd} :
          LET v == from_vec(Len(src), Len(src) + 1, ptr, 1) IN
          /\ handles = [i \in BytesIds |-> IF i \in Threads THEN v.ret ELSE NoBytes]
          /\ shareds = [k \in SharedIds |->
                          IF k = 1 THEN [v.shared EXCEPT !.ref_cnt = NThreads] ELSE NoShared]
          /\ heap = [NoHeap EXCEPT !.state = "live", !.base = ptr,
                                   !.size = Len(src) + 1, !.bytes = src]
    /\ last = NoCall
    /\ pc = [t \in Threads |-> "idle"]
    /\ loc = [t \in Threads |-> NoLoc]
    /\ uaf = FALSE
    /\ buf_mut = NoBufMut
    /\ written = <<>>
    /\ cursor = NoCursor
    /\ got = <<>>
    /\ blocks = NoBlocks
    /\ put_loop = NoLoop
    /\ iter = NoIter
    /\ contract = TRUE
    /\ sync = [clock |-> [t \in Threads |-> [u \in Threads |-> IF u = t THEN 1 ELSE 0]],
               released |-> [u \in Threads |-> 0],
               used |-> [u \in Threads |-> 0],
               owner |-> [i \in BytesIds |-> IF i \in Threads THEN i ELSE 0]]

Owns(t, h) == h \in Live /\ sync.owner[h] = t /\ pc[t] = "idle"

\* thread t reads the bytes of a value it owns (as_slice)
OrdRead(t, h) ==
    /\ Owns(t, h)
    /\ sync.used[t] < sync.clock[t][t]
    /\ sync' = use(sync, t)
    /\ UNCHANGED <<memVars, last, raceVars, mutVars, bufVars>>

\* thread t clones a value it owns: shared_clone, shallow_clone_arc
OrdClone(t, h) ==
    /\ Owns(t, h) /\ FreeIds # {}
    /\ LET c == shared_clone(shareds, handles[h]) IN
        /\ shareds' = c.shareds
        /\ handles' = [handles EXCEPT ![NewId] = c.ret]
    /\ sync' = [rmw(sync, t, FETCH_ADD_ORDER) EXCEPT !.owner[NewId] = t]
    /\ UNCHANGED <<statics, heap, last, raceVars, mutVars, bufVars>>

\* thread t drops a value it owns: shared_drop, release_shared's fetch_sub
OrdRelease(t, h) ==
    /\ Owns(t, h)
    /\ LET shared == handles[h].data
           prev == shareds[SharedIdx(shared)].ref_cnt
       IN /\ shareds' = fetch_sub(shareds, shared)
          /\ pc' = [pc EXCEPT ![t] = IF prev # 1 THEN "idle" ELSE "drop_box"]
          /\ loc' = [loc EXCEPT ![t].shared = shared]
    /\ handles' = [handles EXCEPT ![h] = Dropped]
    /\ sync' = rmw(sync, t, FETCH_SUB_ORDER)
    /\ UNCHANGED <<statics, heap, last, uaf, mutVars, bufVars>>

\* release_shared's drop(Box::from_raw(shared)) by the thread that saw 1: the
\* buffer and the header are deallocated
OrdFree(t) ==
    /\ pc[t] = "drop_box"
    /\ LET d == drop_box_shared(shareds, heap, loc[t].shared) IN
        /\ shareds' = d.shareds
        /\ heap' = d.heap
    /\ uaf' = (uaf \/ ~OrderedAfterAll(sync, t))
    /\ pc' = [pc EXCEPT ![t] = "idle"]
    /\ sync' = use(sync, t)
    /\ UNCHANGED <<statics, handles, last, loc, mutVars, bufVars>>

NextOrder ==
    \/ \E t \in Threads, h \in BytesIds : OrdRead(t, h)
    \/ \E t \in Threads, h \in BytesIds : OrdClone(t, h)
    \/ \E t \in Threads, h \in BytesIds : OrdRelease(t, h)
    \/ \E t \in Threads : OrdFree(t)

SpecOrder == InitOrder /\ [][NextOrder]_vars

\* --------------------------------------------------------------------- Buf
\* a &[u8] read through Buf: the slice's address and length; its bytes are the
\* ones in memory there
Cursor(ptr, len) == [kind |-> "slice", ptr |-> ptr, len |-> len]

\* <&[u8] as Buf>::remaining: self.len()
remaining(c) == c.len

\* <&[u8] as Buf>::chuncks: self
chuncks(c) == [i \in 1..c.len |-> Mem(c.ptr + i - 1)]

\* mutant: the slice is shortened but still starts where it did
buf_advance_unmoved(c, cnt) ==
    IF cnt > c.len THEN [panic |-> TRUE, c |-> c]
    ELSE [panic |-> FALSE, c |-> Cursor(c.ptr, c.len - cnt)]

\* <&[u8] as Buf>::advance: *self = &self[cnt..], which panics when cnt > len
buf_advance(c, cnt) ==
    IF cnt > c.len THEN [panic |-> TRUE, c |-> c]
    ELSE [panic |-> FALSE, c |-> Cursor(c.ptr + cnt, c.len - cnt)]

\* Buf::has_remaining
has_remaining(c) == remaining(c) > 0

\* mutant: the byte is returned and the cursor left where it is
get_u8_unmoved(c) ==
    IF ~has_remaining(c) THEN [panic |-> TRUE, ret |-> 0, c |-> c]
    ELSE [panic |-> FALSE, ret |-> chuncks(c)[1], c |-> c]

\* Buf::get_u8: assert!(has_remaining()), chuncks()[0], advance(1)
get_u8(c) ==
    IF ~has_remaining(c) THEN [panic |-> TRUE, ret |-> 0, c |-> c]
    ELSE LET ret == chuncks(c)[1]
             a == buf_advance(c, 1)
         IN [panic |-> a.panic, ret |-> ret, c |-> a.c]

\* Buf::peek_u8: assert!(has_remaining()), chuncks()[0]
peek_u8(c) ==
    IF ~has_remaining(c) THEN [panic |-> TRUE, ret |-> 0, c |-> c]
    ELSE [panic |-> FALSE, ret |-> chuncks(c)[1], c |-> c]

\* ----------------------------------------------------------------- SpecBuf
\* A slice is read through Buf: advanced over, peeked at, and read byte by byte.

\* the slices read, and the counts given to advance: up to one past the longest
\* slice, and usize::MAX
BufSrcs == {Content(n) : n \in 0..MaxMutLen}
BufCounts == (0..(MaxMutLen + 1)) \cup {USIZE_MAX}

BufCall(op, panic, at, val) ==
    [NoCall EXCEPT !.op = op, !.panic = panic, !.at = at, !.val = val,
                   !.orig = chuncks(cursor), !.pre = cursor]

\* let mut buf: &[u8] = src
BufFrom(src) ==
    /\ Ready /\ cursor.kind = "none"
    /\ statics' = src
    /\ cursor' = Cursor(StaticBase, Len(src))
    /\ got' = <<>>
    /\ last' = [NoCall EXCEPT !.op = "buf_from", !.orig = src]
    /\ UNCHANGED <<heap, shareds, handles>>
    /\ UNCHANGED <<raceVars, mutVars, sync, put_loop, iter, contract>>

\* buf.advance(cnt)
BufAdvance(cnt) ==
    /\ Ready /\ cursor.kind = "slice"
    /\ LET a == buf_advance(cursor, cnt) IN
        /\ cursor' = a.c
        /\ last' = BufCall("buf_advance", a.panic, cnt, 0)
    /\ UNCHANGED got
    /\ UNCHANGED memVars
    /\ UNCHANGED <<raceVars, mutVars, sync, put_loop, iter, contract>>

\* buf.get_u8()
BufGetU8 ==
    /\ Ready /\ cursor.kind = "slice"
    /\ LET g == get_u8(cursor) IN
        /\ cursor' = g.c
        /\ got' = IF g.panic THEN got ELSE Append(got, g.ret)
        /\ last' = BufCall("get_u8", g.panic, 0, g.ret)
    /\ UNCHANGED memVars
    /\ UNCHANGED <<raceVars, mutVars, sync, put_loop, iter, contract>>

\* buf.peek_u8()
BufPeekU8 ==
    /\ Ready /\ cursor.kind = "slice"
    /\ LET g == peek_u8(cursor) IN
        /\ cursor' = g.c
        /\ last' = BufCall("peek_u8", g.panic, 0, g.ret)
    /\ UNCHANGED got
    /\ UNCHANGED memVars
    /\ UNCHANGED <<raceVars, mutVars, sync, put_loop, iter, contract>>

NextBuf ==
    \/ \E src \in BufSrcs : BufFrom(src)
    \/ \E cnt \in BufCounts : BufAdvance(cnt)
    \/ BufGetU8
    \/ BufPeekU8
    \/ Return

SpecBuf == Init /\ [][NextBuf]_vars

\* --------------------------------------------------------------- BytesIter
\* struct BytesIter { ptr, len, pos, _b }: b is the id of the Bytes it holds
BytesIter(ptr, len, pos, b) ==
    [kind |-> "BytesIter", ptr |-> ptr, len |-> len, pos |-> pos, b |-> b]

\* BytesIter::new(bytes), <Bytes as IntoIterator>::into_iter
iter_new(bytes, b) == BytesIter(bytes.ptr, bytes.len, 0, b)

\* BytesIter::is_empty
is_empty(it) == it.pos >= it.len

\* BytesIter::peek
peek(it) == IF ~is_empty(it) THEN Mem(it.ptr + it.pos) ELSE None

\* self.pos + n: a sum past usize::MAX panics where overflow checks are compiled
\* in and wraps where they are not
pos_plus(it, n, overflow_checks) ==
    IF overflow_checks /\ it.pos + n > USIZE_MAX THEN [panic |-> TRUE, v |-> 0]
    ELSE [panic |-> FALSE, v |-> WrapAdd(it.pos, n)]

\* BytesIter::peek_nth(n)
peek_nth(it, n, overflow_checks) ==
    LET pos == pos_plus(it, n, overflow_checks) IN
    IF pos.panic THEN [panic |-> TRUE, ret |-> None]
    ELSE [panic |-> FALSE, ret |-> IF pos.v < it.len THEN Mem(it.ptr + pos.v) ELSE None]

\* &self._b[start..end]: the slice index panics when start > end or end > len
index_range(bytes, start, end) ==
    IF start > end \/ end > bytes.len THEN [panic |-> TRUE, ret |-> <<>>]
    ELSE [panic |-> FALSE, ret |-> [i \in 1..(end - start) |-> Mem(bytes.ptr + start + i - 1)]]

\* BytesIter::peek_n(n): some is whether the answer is Some(..)
peek_n(it, bytes, n, overflow_checks) ==
    LET end == pos_plus(it, n, overflow_checks) IN
    IF end.panic THEN [panic |-> TRUE, some |-> FALSE, ret |-> <<>>]
    ELSE IF end.v < it.len
         THEN LET b == index_range(bytes, it.pos, end.v) IN
              [panic |-> b.panic, some |-> ~b.panic, ret |-> b.ret]
         ELSE [panic |-> FALSE, some |-> FALSE, ret |-> <<>>]

\* BytesIter::next_n(n): peek_n, and self.pos += n once the slice is taken
next_n(it, bytes, n, overflow_checks) ==
    LET p == peek_n(it, bytes, n, overflow_checks) IN
    [panic |-> p.panic, some |-> p.some, ret |-> p.ret,
     it |-> IF p.some THEN [it EXCEPT !.pos = it.pos + n] ELSE it]

\* <BytesIter as Iterator>::next
next(it) ==
    IF it.pos < it.len
    THEN [ret |-> Mem(it.ptr + it.pos), it |-> [it EXCEPT !.pos = it.pos + 1]]
    ELSE [ret |-> None, it |-> it]

\* BytesIter::advance(n): debug_assert!(self.pos + n < self.len), self.pos += n
iter_advance(it, n, debug_assertions, overflow_checks) ==
    IF overflow_checks /\ it.pos + n > USIZE_MAX THEN [panic |-> TRUE, it |-> it]
    ELSE IF debug_assertions /\ ~(WrapAdd(it.pos, n) < it.len) THEN [panic |-> TRUE, it |-> it]
    ELSE [panic |-> FALSE, it |-> [it EXCEPT !.pos = WrapAdd(it.pos, n)]]

\* BytesIter::bump(): self.advance(1)
bump(it, debug_assertions, overflow_checks) ==
    iter_advance(it, 1, debug_assertions, overflow_checks)

\* the Safety section of advance and bump: self.pos + n < self.len
advance_safe(it, n) == it.pos + n < it.len

\* ---------------------------------------------------------------- SpecIter
\* A Bytes is built from a static slice, a vector or a boxed slice and turned
\* into a BytesIter, which is then read and moved through its operations.

\* the counts given to peek_nth, peek_n and next_n: short ones, and the one that
\* takes the sum past usize::MAX
IterCounts == (0..(MaxLen + 1)) \cup {USIZE_MAX}
\* whether the build's overflow checks matter to self.pos + n
IterChecks(n) == IF iter.pos + n > USIZE_MAX THEN BOOLEAN ELSE {TRUE}

IterCall(op, panic, at, val, src, overflow_checks) ==
    [NoCall EXCEPT !.op = op, !.panic = panic, !.at = at, !.val = val, !.src = src,
                   !.checks = overflow_checks, !.pre = iter]

\* a BytesIter whose advance and bump were called as their Safety sections ask;
\* what is called on any other is undefined, and the model stops
Iterating == iter.kind = "BytesIter" /\ contract
\* whether the build's debug assertions matter to advance(n)
IterDebug(n) == IF advance_safe(iter, n) THEN {TRUE} ELSE BOOLEAN

\* bytes.into_iter()
IntoIter(h) ==
    /\ Ready /\ iter.kind = "none" /\ h \in Live
    /\ iter' = iter_new(handles[h], h)
    /\ last' = [NoCall EXCEPT !.op = "into_iter", !.self = h, !.pre = handles[h]]
    /\ UNCHANGED memVars
    /\ UNCHANGED <<raceVars, mutVars, sync, cursor, got, put_loop, contract>>

\* iter.next()
IterNext ==
    /\ Ready /\ Iterating
    /\ LET r == next(iter) IN
        /\ iter' = r.it
        /\ last' = IterCall("next", FALSE, 0, r.ret, <<>>, TRUE)
    /\ UNCHANGED memVars
    /\ UNCHANGED <<raceVars, mutVars, sync, cursor, got, put_loop, contract>>

\* iter.next_n(n)
IterNextN(n, overflow_checks) ==
    /\ Ready /\ Iterating
    /\ LET r == next_n(iter, handles[iter.b], n, overflow_checks) IN
        /\ iter' = r.it
        /\ last' = IterCall("next_n", r.panic, n, IF r.some THEN 0 ELSE None, r.ret,
                            overflow_checks)
    /\ UNCHANGED memVars
    /\ UNCHANGED <<raceVars, mutVars, sync, cursor, got, put_loop, contract>>

\* unsafe { iter.advance(n) }
IterAdvance(n, debug_assertions, overflow_checks) ==
    /\ Ready /\ Iterating
    /\ LET r == iter_advance(iter, n, debug_assertions, overflow_checks) IN
        /\ iter' = r.it
        /\ last' = [IterCall("advance", r.panic, n, 0, <<>>, overflow_checks)
                       EXCEPT !.debug = debug_assertions]
        /\ contract' = (r.panic \/ advance_safe(iter, n))
    /\ UNCHANGED memVars
    /\ UNCHANGED <<raceVars, mutVars, sync, cursor, got, put_loop>>

\* unsafe { iter.bump() }
IterBump(debug_assertions, overflow_checks) ==
    /\ Ready /\ Iterating
    /\ LET r == bump(iter, debug_assertions, overflow_checks) IN
        /\ iter' = r.it
        /\ last' = [IterCall("bump", r.panic, 1, 0, <<>>, overflow_checks)
                       EXCEPT !.debug = debug_assertions]
        /\ contract' = (r.panic \/ advance_safe(iter, 1))
    /\ UNCHANGED memVars
    /\ UNCHANGED <<raceVars, mutVars, sync, cursor, got, put_loop>>

\* iter.peek()
IterPeek ==
    /\ Ready /\ Iterating
    /\ last' = IterCall("peek", FALSE, 0, peek(iter), <<>>, TRUE)
    /\ UNCHANGED iter
    /\ UNCHANGED memVars
    /\ UNCHANGED <<raceVars, mutVars, sync, cursor, got, put_loop, contract>>

\* iter.peek_nth(n)
IterPeekNth(n, overflow_checks) ==
    /\ Ready /\ Iterating
    /\ LET r == peek_nth(iter, n, overflow_checks) IN
        last' = IterCall("peek_nth", r.panic, n, r.ret, <<>>, overflow_checks)
    /\ UNCHANGED iter
    /\ UNCHANGED memVars
    /\ UNCHANGED <<raceVars, mutVars, sync, cursor, got, put_loop, contract>>

\* iter.peek_n(n)
IterPeekN(n, overflow_checks) ==
    /\ Ready /\ Iterating
    /\ LET r == peek_n(iter, handles[iter.b], n, overflow_checks) IN
        last' = IterCall("peek_n", r.panic, n, IF r.some THEN 0 ELSE None, r.ret,
                         overflow_checks)
    /\ UNCHANGED iter
    /\ UNCHANGED memVars
    /\ UNCHANGED <<raceVars, mutVars, sync, cursor, got, put_loop, contract>>

NextIter ==
    \/ \E src \in Contents : FromStatic(src)
    \/ \E src \in Contents, slack \in Slacks, ptr \in {HeapEven, HeapOdd} :
          FromVec(src, Len(src) + slack, ptr)
    \/ \E src \in Contents, ptr \in {HeapEven, HeapOdd} : FromBox(src, ptr)
    \/ \E h \in BytesIds : IntoIter(h)
    \/ IterNext
    \/ \E n \in IterCounts : \E oc \in IterChecks(n) : IterNextN(n, oc)
    \/ \E n \in IterCounts : \E d \in IterDebug(n), oc \in IterChecks(n) : IterAdvance(n, d, oc)
    \/ \E d \in IterDebug(1), oc \in IterChecks(1) : IterBump(d, oc)
    \/ IterPeek
    \/ \E n \in IterCounts : \E oc \in IterChecks(n) : IterPeekNth(n, oc)
    \/ \E n \in IterCounts : \E oc \in IterChecks(n) : IterPeekN(n, oc)
    \/ Return

SpecIter == Init /\ [][NextIter]_vars

\* ------------------------------------------------- BufMut, default methods
\* The loops of the default BufMut::put and BufMut::put_slice, over a
\* destination that provides remaining_mut, chuncks_mut and advance as BytesMut
\* provides them and leaves put and put_slice to the trait.

\* cmp::min
min(a, b) == IF a <= b THEN a ELSE b

\* the assert! of the default put and put_slice: remaining_mut() >= needed
put_fits(b, needed) == remaining_mut(b) >= needed

\* ptr::copy_nonoverlapping(src, dst, count), dst being the chunk at offset off
copy_nonoverlapping(b, off, src, count) ==
    IF count = 0 THEN b ELSE [b EXCEPT !.mem = copy_at(@, off, SubSeq(src, 1, count))]

\* one round of the default put_slice: count = min(dst.len(), src.len() - index),
\* the copy, self.advance(count), index += count
put_slice_round(b, src, index) ==
    LET dst == chuncks_mut(b)
        count == min(dst.len, Len(src) - index)
        rest == SubSeq(src, index + 1, Len(src))
        a == advance(copy_nonoverlapping(b, dst.off, rest, count), count)
    IN [panic |-> a.panic, b |-> a.b, count |-> count, index |-> index + count]

\* one round of the default put: count = min(chunck.len(), dst.len()), the copy,
\* src.advance(count), self.advance(count)
put_round(b, c) ==
    LET chunck == chuncks(c)
        dst == chuncks_mut(b)
        count == min(Len(chunck), dst.len)
        s == buf_advance(c, count)
        a == advance(copy_nonoverlapping(b, dst.off, chunck, count), count)
    IN [panic |-> s.panic \/ a.panic, b |-> a.b, c |-> s.c, count |-> count]

\* ----------------------------------------------------------------- SpecPut
\* A BytesMut is built and filled, and slices are written to it through the
\* default put_slice and put, one round of their loops at a time.

PutSrcs(len) == {Content(n) : n \in {0, 1, MaxLen, ISIZE_MAX - len + 1}}
PutCapacities == {0, 1, MaxLen, MaxMutLen + MaxLen}

InLoop == put_loop.op # "none"

PutCall(op, panic, src) ==
    [NoCall EXCEPT !.op = op, !.panic = panic, !.at = put_loop.start, !.src = src,
                   !.orig = written, !.pre = buf_mut]

\* dst.put_slice(src): let mut index = 0 and the assert!
DefaultPutSlice(src) ==
    /\ Ready /\ Usable /\ Short(buf_mut.len)
    /\ put_loop' = IF put_fits(buf_mut, Len(src))
                   THEN [op |-> "put_slice", src |-> src, index |-> 0,
                         count |-> Uninit, start |-> buf_mut.len]
                   ELSE put_loop
    /\ last' = IF put_fits(buf_mut, Len(src)) THEN last
               ELSE PutCall("put_slice_default", TRUE, src)
    /\ UNCHANGED <<memVars, raceVars, mutVars, sync, cursor, got, iter, contract>>

\* while index < src.len() { .. }: one round
DefaultPutSliceRound ==
    /\ put_loop.op = "put_slice" /\ put_loop.index < Len(put_loop.src)
    /\ LET r == put_slice_round(buf_mut, put_loop.src, put_loop.index) IN
        /\ buf_mut' = r.b
        /\ put_loop' = [put_loop EXCEPT !.index = r.index, !.count = r.count]
    /\ UNCHANGED <<memVars, raceVars, written, blocks, sync, cursor, got, iter, last, contract>>

\* index == src.len(): the loop is left and put_slice returns
DefaultPutSliceEnd ==
    /\ put_loop.op = "put_slice" /\ ~(put_loop.index < Len(put_loop.src))
    /\ written' = written \o put_loop.src
    /\ last' = PutCall("put_slice_default", FALSE, put_loop.src)
    /\ put_loop' = NoLoop
    /\ UNCHANGED <<memVars, raceVars, buf_mut, blocks, sync, cursor, got, iter, contract>>

\* dst.put(src) for the &[u8] that cursor stands for: the assert!
DefaultPut ==
    /\ Ready /\ Usable /\ Short(buf_mut.len) /\ cursor.kind = "slice"
    /\ put_loop' = IF put_fits(buf_mut, remaining(cursor))
                   THEN [op |-> "put", src |-> chuncks(cursor), index |-> 0,
                         count |-> Uninit, start |-> buf_mut.len]
                   ELSE put_loop
    /\ last' = IF put_fits(buf_mut, remaining(cursor)) THEN last
               ELSE PutCall("put_default", TRUE, chuncks(cursor))
    /\ cursor' = IF put_fits(buf_mut, remaining(cursor)) THEN cursor ELSE NoCursor
    /\ UNCHANGED <<memVars, raceVars, mutVars, sync, got, iter, contract>>

\* while src.has_remaining() { .. }: one round
DefaultPutRound ==
    /\ put_loop.op = "put" /\ has_remaining(cursor)
    /\ LET r == put_round(buf_mut, cursor) IN
        /\ buf_mut' = r.b
        /\ cursor' = r.c
        /\ put_loop' = [put_loop EXCEPT !.index = @ + r.count, !.count = r.count]
    /\ UNCHANGED <<memVars, raceVars, written, blocks, sync, got, iter, last, contract>>

\* src.remaining() == 0: the loop is left, put returns and src is dropped
DefaultPutEnd ==
    /\ put_loop.op = "put" /\ ~has_remaining(cursor)
    /\ written' = written \o put_loop.src
    /\ last' = PutCall("put_default", FALSE, put_loop.src)
    /\ put_loop' = NoLoop
    /\ cursor' = NoCursor
    /\ UNCHANGED <<memVars, raceVars, buf_mut, blocks, sync, got, iter, contract>>

\* a call that has been entered keeps running
LoopStep ==
    \/ DefaultPutSliceRound
    \/ DefaultPutSliceEnd
    \/ DefaultPutRound
    \/ DefaultPutEnd

NextPut ==
    \/ BytesMutNew
    \/ \E cap \in PutCapacities, ptr \in Addrs : WithCapacity(cap, ptr)
    \/ \E byte \in PushBytes, ptr \in Addrs : Push(byte, ptr)
    \/ \E src \in BufSrcs : BufFrom(src)
    \/ \E src \in PutSrcs(buf_mut.len) : DefaultPutSlice(src)
    \/ DefaultPut
    \/ LoopStep
    \/ Return

SpecPut == Init /\ [][NextPut]_vars

\* the program runs on: a step that can be taken is taken
SpecPutFair == Init /\ [][NextPut]_vars /\ WF_vars(LoopStep)

\* ================================================================ claims
HasHeader(b) ==
    \/ b.vtable = "SHARED"
    \/ b.vtable \in {"PROMOTABLE_EVEN", "PROMOTABLE_ODD"} /\ KindOf(b.data) = KIND_SHARED
Unpromoted(b) ==
    b.vtable \in {"PROMOTABLE_EVEN", "PROMOTABLE_ODD"} /\ KindOf(b.data) = KIND_UNSHARED
InHeap(b) == b.ptr >= heap.base /\ b.ptr + b.len <= heap.base + heap.size
AllDropped ==
    /\ \A i \in BytesIds : handles[i].alive \in {"unborn", "dropped"}
    /\ \A t \in Threads : pc[t] \in {"idle", "panicked"}
NothingDropped ==
    /\ \A i \in BytesIds : handles[i].alive # "dropped"
    /\ \A t \in Threads : loc[t].op # "drop"

\* C1: the backing allocation and every header are deallocated at most once, and
\* all of them have been deallocated once every value derived from the
\* allocation is dropped (no double free, no leak).
C1_FreedExactlyOnce ==
    /\ heap.frees <= 1
    /\ \A k \in SharedIds : shareds[k].frees <= 1
    /\ (AllDropped /\ heap.state # "none") =>
          /\ heap.frees = 1
          /\ \A k \in SharedIds : shareds[k].state # "live"

\* C2: every live value's bytes [ptr, ptr + len) lie in memory that is still
\* allocated, and so does the header its provenance word points to.
C2_NoUseAfterFree ==
    \A i \in Live :
        LET b == handles[i] IN
        b.vtable # "STATIC" =>
            /\ heap.state = "live"
            /\ InHeap(b)
            /\ HasHeader(b) => shareds[SharedIdx(b.data)].state = "live"

EachClonedOnce ==
    \A t \in Threads :
        pc[t] = "idle" /\ loc[t].calls = 1 /\ loc[t].op = "clone" /\ loc[t].h = 1

\* C3: once each of the N threads has cloned the Promotable original exactly
\* once, exactly one header is alive, it is the one in the original's provenance
\* word, and its reference count is N + 1.
C3_OneHeaderCountNPlusOne ==
    (handles[1].vtable \in {"PROMOTABLE_EVEN", "PROMOTABLE_ODD"} /\ EachClonedOnce) =>
        /\ KindOf(handles[1].data) = KIND_SHARED
        /\ shareds[SharedIdx(handles[1].data)].state = "live"
        /\ shareds[SharedIdx(handles[1].data)].ref_cnt = NThreads + 1
        /\ Cardinality({k \in SharedIds : shareds[k].state = "live"}) = 1

\* C4: a thread whose compare-and-swap failed has, when its clone returns,
\* released the header it allocated and left the winning header and the buffer
\* allocated; and after every value is dropped every header and the buffer have
\* been freed exactly once, none of them touched after being freed.
C4_LoserDiscardsOwnHeader ==
    /\ \A t \in Threads :
          (pc[t] = "idle" /\ loc[t].lost /\ NothingDropped) =>
              /\ shareds[SharedIdx(loc[t].mine)].state = "freed"
              /\ shareds[SharedIdx(loc[t].mine)].frees = 1
              /\ shareds[SharedIdx(loc[t].actual)].state = "live"
              /\ heap.state = "live"
    /\ ~uaf
    /\ AllDropped =>
          /\ heap.frees = 1
          /\ \A k \in SharedIds : shareds[k].state = "none" \/ shareds[k].frees = 1

IsHalfOpen(r) == r.start.k = "Included" /\ r.end.k = "Excluded"

\* C5: for a range start..end with start <= end <= len, slice returns a value
\* whose content is the source's content from start to end, and the source's
\* view and content are as before the call.
C5_SliceContent ==
    (/\ last.op = "slice" /\ IsHalfOpen(last.range)
     /\ last.range.start.v <= last.range.end.v
     /\ last.range.end.v <= last.pre.len) =>
        /\ ~last.panic
        /\ as_slice(handles[last.ret])
             = SubSeq(last.orig, last.range.start.v + 1, last.range.end.v)
        /\ handles[last.self].ptr = last.pre.ptr
        /\ handles[last.self].len = last.pre.len
        /\ as_slice(handles[last.self]) = last.orig

C5_Witness ==
    /\ last.op = "slice" /\ IsHalfOpen(last.range) /\ ~last.panic
    /\ 1 <= last.range.start.v
    /\ last.range.start.v < last.range.end.v
    /\ last.pre.vtable # "STATIC"

\* the bounds of a range as RangeBounds gives them: an unbounded end is the length
BoundStart(r) ==
    CASE r.start.k = "Included" -> r.start.v
      [] r.start.k = "Excluded" -> r.start.v + 1
      [] r.start.k = "Unbounded" -> 0
BoundEnd(r, len) ==
    CASE r.end.k = "Included" -> r.end.v + 1
      [] r.end.k = "Excluded" -> r.end.v
      [] r.end.k = "Unbounded" -> len

\* C6: slice panics exactly when the range's start exceeds its end or its end
\* exceeds the length; when it panics the source's view, provenance word and
\* reference count are as before.
C6_SlicePanicsExactly ==
    last.op = "slice" =>
        /\ last.panic <=>
              \/ BoundStart(last.range) > BoundEnd(last.range, last.pre.len)
              \/ BoundEnd(last.range, last.pre.len) > last.pre.len
        /\ last.panic =>
              /\ handles[last.self] = last.pre
              /\ shareds = last.pre_shareds

\* C7: slice of an empty range start..start (start <= len) returns an empty
\* value that owns nothing: the source is not promoted, no header is allocated,
\* no reference count changes, and dropping the result frees nothing.
C7_EmptySliceOwnsNothing ==
    (/\ last.op = "slice" /\ IsHalfOpen(last.range)
     /\ last.range.start.v = last.range.end.v
     /\ last.range.end.v <= last.pre.len) =>
        /\ ~last.panic
        /\ handles[last.ret].len = 0
        /\ handles[last.ret].vtable = "STATIC"
        /\ handles[last.self] = last.pre
        /\ shareds = last.pre_shareds
        /\ drop_bytes(shareds, heap, handles[last.ret]) = [shareds |-> shareds, heap |-> heap]

C7_Witness ==
    /\ last.op = "slice" /\ IsHalfOpen(last.range) /\ ~last.panic
    /\ last.range.start.v = last.range.end.v
    /\ last.range.start.v >= 1
    /\ Unpromoted(last.pre)

\* C8: after tail = b.split_off(at) with at <= len, b holds orig[0..at] and tail
\* holds orig[at..]; together they give orig.
C8_SplitOffParts ==
    (last.op = "split_off" /\ last.at <= last.pre.len) =>
        /\ ~last.panic
        /\ as_slice(handles[last.self]) = SubSeq(last.orig, 1, last.at)
        /\ as_slice(handles[last.ret]) = SubSeq(last.orig, last.at + 1, Len(last.orig))
        /\ as_slice(handles[last.self]) \o as_slice(handles[last.ret]) = last.orig

C8_Witness ==
    /\ last.op = "split_off" /\ ~last.panic
    /\ 1 <= last.at /\ last.at < last.pre.len
    /\ Unpromoted(last.pre)

\* C9: after head = b.split_to(at) with at <= len, head holds orig[0..at] and b
\* holds orig[at..], its pointer advanced by at and its length reduced by at.
C9_SplitToParts ==
    (last.op = "split_to" /\ last.at <= last.pre.len) =>
        /\ ~last.panic
        /\ as_slice(handles[last.ret]) = SubSeq(last.orig, 1, last.at)
        /\ as_slice(handles[last.self]) = SubSeq(last.orig, last.at + 1, Len(last.orig))
        /\ handles[last.self].ptr = last.pre.ptr + last.at
        /\ handles[last.self].len = last.pre.len - last.at

C9_Witness ==
    /\ last.op = "split_to" /\ ~last.panic
    /\ 1 <= last.at /\ last.at < last.pre.len
    /\ HasHeader(last.pre)

\* C10: split_off and split_to panic exactly when at > len; when they panic the
\* value's view and provenance word and every reference count are as before.
C10_SplitPanicsExactly ==
    last.op \in {"split_off", "split_to"} =>
        /\ last.panic <=> last.at > last.pre.len
        /\ last.panic =>
              /\ last.ret = 0
              /\ handles[last.self] = last.pre
              /\ shareds = last.pre_shareds

C10_Witness ==
    /\ last.op \in {"split_off", "split_to"}
    /\ last.panic
    /\ last.at = last.pre.len + 1
    /\ HasHeader(last.pre)

\* C11: get(index) returns the byte at position index of the content when
\* index < len and panics when index >= len; on an empty value it panics for
\* every index, 0 included. The value is left as it was.
C11_GetInBounds ==
    last.op = "get" =>
        /\ last.panic <=> last.at >= last.pre.len
        /\ ~last.panic => last.val = last.orig[last.at + 1]
        /\ (last.pre.len = 0) => last.panic
        /\ handles[last.self] = last.pre

C11_Witness ==
    /\ last.op = "get" /\ ~last.panic
    /\ last.at >= 1
    /\ last.at = last.pre.len - 1
    /\ HasHeader(last.pre)

\* C12: clone of a Static, a Shared or a not yet promoted Promotable value
\* returns a value with the source's (ptr, len), hence the same content read
\* from the same addresses (no byte is copied, the allocation stays where it
\* is), and the source's view and content are as before.
C12_CloneSameView ==
    (/\ last.op = "clone"
     /\ last.pre.vtable \in {"STATIC", "SHARED"} \/ Unpromoted(last.pre)) =>
        /\ ~last.panic
        /\ handles[last.ret].alive = "live"
        /\ handles[last.ret].ptr = last.pre.ptr
        /\ handles[last.ret].len = last.pre.len
        /\ as_slice(handles[last.ret]) = last.orig
        /\ handles[last.self].ptr = last.pre.ptr
        /\ handles[last.self].len = last.pre.len
        /\ as_slice(handles[last.self]) = last.orig
        /\ last.pre.vtable # "STATIC" => heap.state = "live" /\ InHeap(handles[last.ret])

C12_Witness ==
    /\ last.op = "clone" /\ Unpromoted(last.pre)
    /\ last.pre.len = MaxLen
    /\ handles[last.ret].vtable = "SHARED"

\* C13 as claimed: Bytes::from(Vec<u8>) gives a Shared value (a header with
\* count 1) when capacity equals length, and a Promotable value without a
\* header when length < capacity.
C13_SharedWhenNoSlack ==
    last.op = "from_vec" =>
        /\ Len(last.orig) = last.at =>
              /\ handles[last.ret].vtable = "SHARED"
              /\ shareds[SharedIdx(handles[last.ret].data)].ref_cnt = 1
        /\ Len(last.orig) < last.at =>
              /\ Unpromoted(handles[last.ret])
              /\ \A k \in SharedIds : shareds[k].state = "none"

\* C13 as amended: Bytes::from(Vec<u8>) adopts the vector's allocation without
\* copying; when capacity equals length it gives a Promotable value with no
\* header (the empty Static value when both are 0), and when length < capacity
\* a Shared value whose header records the buffer and its capacity with count 1.
C13_PromotableWhenNoSlack ==
    last.op = "from_vec" =>
        LET b == handles[last.ret]
            len == Len(last.orig)
            cap == last.at
        IN /\ ~last.panic
           /\ b.len = len /\ as_slice(b) = last.orig
           /\ cap > 0 => b.ptr = heap.base /\ heap.size = cap /\ heap.state = "live"
           /\ (len = cap /\ len > 0) =>
                 /\ Unpromoted(b)
                 /\ \A k \in SharedIds : shareds[k].state = "none"
           /\ (len = cap /\ len = 0) =>
                 /\ b = BytesNew
                 /\ \A k \in SharedIds : shareds[k].state = "none"
           /\ len < cap =>
                 /\ b.vtable = "SHARED"
                 /\ shareds[SharedIdx(b.data)]
                      = [state |-> "live", buf |-> heap.base, cap |-> cap, ref_cnt |-> 1, frees |-> 0]
                 /\ Cardinality({k \in SharedIds : shareds[k].state = "live"}) = 1

C13_Witness ==
    /\ last.op = "from_vec"
    /\ Len(last.orig) = last.at /\ last.at = MaxLen
    /\ Unpromoted(handles[last.ret])

\* C14: freeze returns, whatever the buffer's len and capacity, a Promotable
\* value over the buffer's own allocation, and allocates no header.
C14_FreezePromotable ==
    (last.op = "freeze" /\ last.pre.cap > 0) =>
        /\ Unpromoted(handles[last.ret])
        /\ handles[last.ret].ptr = last.pre.ptr
        /\ heap.base = last.pre.ptr
        /\ \A k \in SharedIds : shareds[k].state = "none"

\* C15: freeze returns a value whose length is the number of bytes written (and
\* not popped) and whose content is those bytes in the order written, with or
\* without spare capacity at the time of the freeze.
C15_FreezeContent ==
    last.op = "freeze" =>
        /\ handles[last.ret].alive = "live"
        /\ handles[last.ret].len = Len(written)
        /\ as_slice(handles[last.ret]) = written

C15_Witness ==
    /\ last.op = "freeze"
    /\ Len(written) >= 2 /\ written[1] # written[2]
    /\ last.pre.len < last.pre.cap

\* C16: a BytesMut always has len <= capacity, and its first len bytes are the
\* bytes written and not popped, in order (set_len, where it was called, having
\* been called as its Safety section asks).
C16_LenWithinCap ==
    (buf_mut.kind = "BytesMut" /\ contract) =>
        /\ buf_mut.len <= buf_mut.cap
        /\ mut_as_slice(buf_mut) = written

\* C17: a push that finds len == capacity takes the capacity to 1 from 0 and to
\* twice its value otherwise; a push that finds len < capacity leaves it; either
\* way len grows by 1, the bytes before are kept and the byte pushed is last.
C17_PushGrowth ==
    last.op = "push" =>
        /\ last.panic <=> (last.pre.len = last.pre.cap /\ 2 * last.pre.cap > ISIZE_MAX)
        /\ ~last.panic =>
              /\ last.pre.len = last.pre.cap =>
                    buf_mut.cap = (IF last.pre.cap = 0 THEN 1 ELSE 2 * last.pre.cap)
              /\ last.pre.len < last.pre.cap => buf_mut.cap = last.pre.cap
              /\ buf_mut.len = last.pre.len + 1
              /\ mut_as_slice(buf_mut) = Append(last.orig, last.val)

C17_Witness ==
    /\ last.op = "push" /\ ~last.panic
    /\ last.pre.len = last.pre.cap /\ last.pre.cap = 2
    /\ buf_mut.cap = 4

\* C18: reserve(additional) and extend_from_slice of additional bytes leave the
\* capacity as it is when additional <= capacity - len, and otherwise make it
\* exactly len + additional; the len bytes already there are kept.
C18_ReserveExact ==
    (last.op \in {"reserve", "extend_from_slice"} /\ ~last.panic) =>
        /\ buf_mut.cap = (IF last.at <= last.pre.cap - last.pre.len THEN last.pre.cap
                          ELSE last.pre.len + last.at)
        /\ \A i \in 1..last.pre.len :
              i <= Len(buf_mut.mem) /\ buf_mut.mem[i] = last.orig[i]

\* C19: a call that asks for growth (with_capacity, reserve, extend_from_slice,
\* push) panics when the capacity it needs exceeds isize::MAX, and never returns
\* with a capacity below that need or below len.
C19_GrowthNeverWraps ==
    last.op \in {"with_capacity", "reserve", "extend_from_slice", "push"} =>
        LET need == IF last.op = "with_capacity" THEN last.at ELSE last.pre.len + last.at IN
        /\ need > ISIZE_MAX => last.panic
        /\ ~last.panic => buf_mut.cap >= need /\ buf_mut.cap >= buf_mut.len

\* C20: put_slice(src) on a BytesMut or a Vec<u8> whose remaining writable
\* capacity remaining_mut() equals src.len() succeeds, appends exactly src's
\* bytes behind the ones already written and fills the destination exactly
\* (remaining_mut() is 0 afterwards); when remaining_mut() is src.len() - 1 it
\* panics before any byte is written, the destination left as it was.
C20_PutSliceExactFit ==
    last.op = "put_slice" =>
        /\ remaining_mut(last.pre) = Len(last.src) =>
              /\ ~last.panic
              /\ mut_as_slice(buf_mut) = last.orig \o last.src
              /\ buf_mut.len = last.pre.len + Len(last.src)
              /\ buf_mut.len <= buf_mut.cap
              /\ remaining_mut(buf_mut) = 0
        /\ remaining_mut(last.pre) = Len(last.src) - 1 =>
              /\ last.panic
              /\ buf_mut = last.pre

\* the part of C20 that holds: the same statement for a BytesMut alone, whose
\* reserve grows to exactly len + src.len()
C20_BytesMutExactFit ==
    (last.op = "put_slice" /\ last.pre.kind = "BytesMut") => C20_PutSliceExactFit

\* the Vec<u8> that C20 fails on: put_slice(src) with remaining_mut() equal to
\* src.len() panics, the spare capacity being short and twice the capacity
\* being past isize::MAX
C20_VecPanicsOnFit ==
    /\ last.op = "put_slice" /\ last.panic
    /\ last.pre.kind = "Vec"
    /\ remaining_mut(last.pre) = Len(last.src)
    /\ last.pre.cap - last.pre.len < Len(last.src)
    /\ 2 * last.pre.cap > ISIZE_MAX

\* C21: for a BytesMut and for a Vec<u8>, whenever remaining_mut() > 0 the
\* view chuncks_mut() returns is at least one byte long.
C21_ChunkWhenRemaining ==
    (buf_mut.kind \in {"BytesMut", "Vec"} /\ buf_mut.len <= buf_mut.cap) =>
        (remaining_mut(buf_mut) > 0 => chuncks_mut(buf_mut).len >= 1)

\* C22 as claimed: copy_from_slice(src) returns, for every src, a Promotable
\* value holding src's bytes in an allocation of its own.
C22_CopyPromotable ==
    last.op = "copy_from_slice" =>
        LET b == handles[last.ret] IN
        /\ as_slice(b) = last.orig
        /\ Unpromoted(b)
        /\ heap.state = "live" /\ heap.base = b.ptr

\* C22 as amended: copy_from_slice(src) returns a value whose content is src;
\* for a non-empty src it is a Promotable value, the only owner of a new
\* allocation of exactly src.len() bytes, with no header; for an empty src it
\* is the empty Static value, which owns no allocation.
C22_CopyPromotableUnlessEmpty ==
    last.op = "copy_from_slice" =>
        LET b == handles[last.ret] IN
        /\ ~last.panic
        /\ b.len = Len(last.orig) /\ as_slice(b) = last.orig
        /\ Live = {last.ret}
        /\ \A k \in SharedIds : shareds[k].state = "none"
        /\ last.orig # <<>> =>
              /\ Unpromoted(b)
              /\ heap.state = "live" /\ heap.base = b.ptr /\ heap.size = b.len
              /\ b.ptr \in {HeapEven, HeapOdd}
        /\ last.orig = <<>> =>
              /\ b = BytesNew
              /\ heap = NoHeap

C22_Witness ==
    /\ last.op = "copy_from_slice"
    /\ Len(last.orig) = MaxLen
    /\ Unpromoted(handles[last.ret])
    /\ as_slice(handles[last.ret]) = Content(MaxLen)

\* C23: BytesMut::new() gives len 0 and capacity 0 and allocates nothing (its
\* pointer dangles); with_capacity(n) gives len 0 and capacity exactly n when
\* n <= isize::MAX, and panics when n > isize::MAX.
C23_NewAndWithCapacity ==
    /\ last.op = "new" =>
          /\ ~last.panic
          /\ buf_mut.kind = "BytesMut" /\ buf_mut.len = 0 /\ buf_mut.cap = 0
          /\ buf_mut.ptr = DanglingAddr /\ buf_mut.ptr \notin Addrs
          /\ buf_mut.mem = <<>>
    /\ last.op = "with_capacity" =>
          /\ last.panic <=> last.at > ISIZE_MAX
          /\ ~last.panic =>
                /\ buf_mut.kind = "BytesMut" /\ buf_mut.len = 0 /\ buf_mut.cap = last.at
                /\ buf_mut.ptr \in Addrs
          /\ last.panic => buf_mut.kind = "none"

C23_Witness ==
    /\ last.op = "with_capacity" /\ ~last.panic
    /\ last.at = ISIZE_MAX
    /\ buf_mut.cap = ISIZE_MAX /\ buf_mut.len = 0

\* C24: advance(n) on a &[u8] cursor panics when n > remaining(); otherwise
\* remaining() decreases by exactly n and chuncks() is the chunk before with
\* its first n bytes removed.
C24_BufAdvance ==
    last.op = "buf_advance" =>
        /\ last.panic <=> last.at > remaining(last.pre)
        /\ last.panic => cursor = last.pre
        /\ ~last.panic =>
              /\ remaining(cursor) = remaining(last.pre) - last.at
              /\ chuncks(cursor) = SubSeq(last.orig, last.at + 1, Len(last.orig))

C24_Witness ==
    /\ last.op = "buf_advance" /\ ~last.panic
    /\ last.at >= 1 /\ last.at < remaining(last.pre)
    /\ cursor.ptr > StaticBase + last.at

\* C25: get_u8 and peek_u8 panic when remaining() == 0; otherwise both return
\* the first byte of chuncks(), get_u8 moving the cursor on by exactly 1 and
\* peek_u8 leaving it where it is; so the bytes a run of get_u8 calls returns
\* are the slice's bytes in order.
C25_GetAndPeek ==
    /\ last.op \in {"get_u8", "peek_u8"} =>
          /\ last.panic <=> remaining(last.pre) = 0
          /\ last.panic => cursor = last.pre
          /\ ~last.panic => last.val = last.orig[1]
          /\ (~last.panic /\ last.op = "get_u8") =>
                /\ remaining(cursor) = remaining(last.pre) - 1
                /\ chuncks(cursor) = Tail(last.orig)
          /\ last.op = "peek_u8" => cursor = last.pre
    /\ (cursor.kind = "slice" /\ Len(got) = cursor.ptr - StaticBase) =>
          got \o chuncks(cursor) = statics

C25_Witness ==
    /\ last.op = "get_u8" /\ ~last.panic
    /\ Len(got) >= 2 /\ got[1] # got[2]
    /\ Len(got) = cursor.ptr - StaticBase
    /\ remaining(cursor) >= 1

\* C27: slice with an unbounded end (s.. or ..) takes the end to be len: for
\* every s <= len, slice(s..) succeeds with the content from s on, and
\* slice(..) has the source's content.
C27_UnboundedEndIsLen ==
    (/\ last.op = "slice" /\ last.range.end.k = "Unbounded"
     /\ last.range.start.k \in {"Included", "Unbounded"}
     /\ BoundStart(last.range) <= last.pre.len) =>
        /\ ~last.panic
        /\ as_slice(handles[last.ret])
             = SubSeq(last.orig, BoundStart(last.range) + 1, Len(last.orig))

LiveShared(sh) == {k \in SharedIds : sh[k].state = "live"}

\* C28: the clone of a not yet promoted Promotable value allocates exactly one
\* header, which records the buffer's start and a reference count of 2, stores
\* the header's address in the original's provenance word, and returns a Shared
\* value pointing at that header; a later clone of either value only adds 1 to
\* that count and allocates nothing.
C28_FirstClonePromotes ==
    last.op = "clone" =>
        LET self == handles[last.self]
            ret == handles[last.ret]
            k == SharedIdx(self.data)
        IN /\ Unpromoted(last.pre) =>
                 /\ LiveShared(last.pre_shareds) = {}
                 /\ LiveShared(shareds) = {k}
                 /\ shareds[k].buf = heap.base
                 /\ shareds[k].ref_cnt = 2
                 /\ self.vtable = last.pre.vtable
                 /\ KindOf(self.data) = KIND_SHARED
                 /\ ret.vtable = "SHARED" /\ ret.data = self.data
           /\ HasHeader(last.pre) =>
                 /\ self.data = last.pre.data
                 /\ shareds = [last.pre_shareds EXCEPT ![k].ref_cnt = @ + 1]
                 /\ ret.vtable = "SHARED" /\ ret.data = self.data

C28_Witness ==
    /\ last.op = "clone"
    /\ HasHeader(last.pre) /\ last.pre.vtable \in {"PROMOTABLE_EVEN", "PROMOTABLE_ODD"}
    /\ shareds[SharedIdx(last.pre.data)].ref_cnt = 3
    /\ Cardinality(LiveShared(shareds)) = 1

Owners(k) == {i \in Live : HasHeader(handles[i]) /\ handles[i].data = SharedAddr(k)}
Quiescent == \A t \in Threads : pc[t] \in {"idle", "panicked"}

\* C29: whenever no clone or drop is in progress, every live value with a header
\* points at a header that is still allocated, and a header's reference count
\* is the number of live values whose provenance word points at it.
C29_CountIsOwners ==
    Quiescent =>
        /\ \A i \in Live :
              HasHeader(handles[i]) => shareds[SharedIdx(handles[i].data)].state = "live"
        /\ \A k \in SharedIds :
              shareds[k].state = "live" => shareds[k].ref_cnt = Cardinality(Owners(k))

\* C30: pop() on a non-empty BytesMut returns its last byte and takes len down
\* by exactly 1, the capacity and the bytes before it left as they were; on an
\* empty one it returns None and changes nothing; so push(b) followed at once by
\* pop() returns b and restores len and content.
C30_PopLast ==
    /\ last.op = "pop" =>
          /\ ~last.panic
          /\ last.pre.len > 0 =>
                /\ last.val = last.orig[Len(last.orig)]
                /\ buf_mut.len = last.pre.len - 1
                /\ buf_mut.cap = last.pre.cap /\ buf_mut.ptr = last.pre.ptr
                /\ mut_as_slice(buf_mut) = SubSeq(last.orig, 1, Len(last.orig) - 1)
          /\ last.pre.len = 0 =>
                /\ last.val = None
                /\ buf_mut = last.pre
    /\ (Usable /\ Short(buf_mut.len)) =>
          \A byte \in PushBytes \cup {0, 255}, ptr \in Addrs :
              LET p == push(buf_mut, byte, ptr)
                  q == pop(p.b)
              IN ~p.panic =>
                    /\ q.ret = byte
                    /\ q.b.len = buf_mut.len
                    /\ mut_as_slice(q.b) = mut_as_slice(buf_mut)

C30_Witness ==
    /\ last.op = "pop"
    /\ last.pre.len >= 2
    /\ last.orig[1] # last.orig[Len(last.orig)]
    /\ last.val = last.orig[Len(last.orig)]
    /\ last.pre.len < last.pre.cap

\* C26: the thread whose decrement in release_shared took the count from 1 to
\* 0 has, before it frees the header and the buffer, every use the other
\* threads made of them (their reads of the bytes, their increments and
\* decrements of the count) ordered before it; nothing is freed while another
\* thread's access may still come after.
C26_FreeAfterAllUses ==
    /\ \A t \in Threads : pc[t] = "drop_box" => OrderedAfterAll(sync, t)
    /\ ~uaf

\* C32: whenever the backing allocation is deallocated (by free_boxed_slice or
\* by Shared's destructor) the size given to the deallocator is the size it was
\* allocated with: a not yet promoted Promotable value views the whole
\* allocation, and the capacity a header records is the whole allocation's
\* size, whatever clone, slice, split_off and split_to have produced.
C32_DeallocSize ==
    /\ heap.state = "freed" => heap.freed_size = heap.size /\ heap.frees = 1
    /\ \A i \in Live :
          Unpromoted(handles[i]) =>
              handles[i].ptr = heap.base /\ handles[i].len = heap.size
    /\ \A k \in SharedIds :
          shareds[k].state = "live" =>
              shareds[k].buf = heap.base /\ shareds[k].cap = heap.size

C32_Witness ==
    /\ last.op = "drop"
    /\ heap.state = "freed" /\ heap.freed_size = MaxLen
    /\ HasHeader(last.pre) /\ last.pre.vtable = "SHARED"
    /\ last.pre.ptr > heap.base
    /\ \E k \in SharedIds : shareds[k].state = "freed" /\ shareds[k].cap = MaxLen

\* the low bit of a Promotable value's provenance word is set while the word is
\* the buffer's address, and clear when it is the address of a header
TagBitTellsHeader ==
    \A i \in BytesIds :
        (handles[i].alive = "live"
         /\ handles[i].vtable \in {"PROMOTABLE_EVEN", "PROMOTABLE_ODD"}) =>
            /\ KindOf(handles[i].data) = KIND_UNSHARED =>
                  ClearKind(handles[i].data) = ClearKind(heap.base)
            /\ KindOf(handles[i].data) = KIND_SHARED =>
                  /\ handles[i].data \in {SharedAddr(k) : k \in SharedIds}
                  /\ shareds[SharedIdx(handles[i].data)].state # "none"

\* a step leaves a Promotable value's vtable alone, and its provenance word too
\* once that holds a header's address
StaysPromoted ==
    \A i \in BytesIds :
        (handles[i].alive = "live" /\ handles'[i].alive = "live"
         /\ handles[i].vtable \in {"PROMOTABLE_EVEN", "PROMOTABLE_ODD"}) =>
            /\ handles'[i].vtable = handles[i].vtable
            /\ KindOf(handles[i].data) = KIND_SHARED => handles'[i].data = handles[i].data

\* C33: a value built with Promotable provenance (even or odd) has the low bit
\* of its provenance word set exactly while no header is installed; once the
\* word holds a header's address it never changes while the value lives:
\* promotion happens at most once and is never undone.
C33_TagBit == []TagBitTellsHeader /\ [][StaysPromoted]_vars

C33_Witness ==
    /\ last.op = "clone" /\ HasHeader(last.pre)
    /\ last.pre.vtable = "PROMOTABLE_EVEN"
    /\ handles[last.self].data = last.pre.data
    /\ handles[last.ret].vtable = "SHARED"

\* C34: every allocation a BytesMut obtains (with_capacity(n), n = 0 included,
\* push growth, reserve) is released exactly once: deallocated by the
\* destructor, resized in place on growth, or handed over once by to_vec /
\* freeze; no allocation is left that nothing will free.
C34_ReleasedOnce ==
    /\ blocks.lost = 0
    /\ blocks.frees + blocks.handed <= 1
    /\ buf_mut.kind \in {"dropped", "Vec", "frozen"} => blocks.owned = "none"

\* C35: a BytesIter has pos < len in every state reachable through its safe
\* operations (into_iter on any Bytes, next, next_n, peek, peek_nth, peek_n),
\* and through advance and bump called as their Safety sections ask.
C35_PosBelowLen == Iterating => iter.pos < iter.len

\* C31: the loops of the default BufMut::put and BufMut::put_slice terminate:
\* once the assertion has passed, every round copies and commits at least one
\* byte, and the loop ends with the source exhausted and the destination's
\* length increased by exactly the source's length.
EveryRoundCopies == InLoop /\ put_loop.count # Uninit => put_loop.count >= 1
EndsExhausted ==
    last.op \in {"put_slice_default", "put_default"} /\ ~last.panic =>
        /\ buf_mut.len = last.at + Len(last.src)
        /\ mut_as_slice(buf_mut) = last.orig \o last.src
C31_DefaultLoopsTerminate ==
    /\ [](EveryRoundCopies /\ EndsExhausted)
    /\ InLoop ~> ~InLoop

====
